---- MODULE Spec2Model ----
(***************************************************************************)
(* duplicacy-util: the run orchestrator performBackup, the four operation  *)
(* runners performDuplicacyBackup / Copy / Prune / Check with their line   *)
(* sinks (src/backup-ops.go), and the configuration loader loadConfig      *)
(* (src/unnamed/part_000).                                                 *)
(*                                                                         *)
(* A Go string is modelled as a sequence of one-character strings, so that *)
(* strings.HasPrefix, strings.Split, strings.Join, the regular expressions *)
(* and the argument concatenations are computed character by character.    *)
(* The Go nil error is Nil; the empty string is <<>>.                      *)
(***************************************************************************)
EXTENDS Integers, Sequences, FiniteSets, TLC

\* ------------------------------------------------------------------ bounds
\* Largest number of targets of one operation kind in a configuration.
MaxTargets == 2
\* Largest number of output lines the external tool prints during one run.
MaxLines == 2
\* Largest number of retention rules in one keep-spec.
MaxKeep == 2
\* Most output lines the tool prints while a runner is called on its own.
MaxObserved == 3

\* ------------------------------------------------------- string primitives
\* strings.HasPrefix(s, p)
HasPrefix(s, p) == Len(s) >= Len(p) /\ SubSeq(s, 1, Len(p)) = p

\* strings.HasSuffix(s, p)
HasSuffix(s, p) == Len(s) >= Len(p) /\ SubSeq(s, Len(s) - Len(p) + 1, Len(s)) = p

\* Position of the first space of s, 0 when it has none.
FirstSpace(s) ==
    IF \E k \in 1..Len(s) : s[k] = " "
    THEN CHOOSE k \in 1..Len(s) : s[k] = " " /\ \A j \in 1..(k - 1) : s[j] # " "
    ELSE 0

\* strings.Split(s, " "): cut at every single space; "" gives one empty piece.
RECURSIVE Split(_)
Split(s) ==
    LET k == FirstSpace(s)
    IN IF k = 0 THEN <<s>>
       ELSE <<SubSeq(s, 1, k - 1)>> \o Split(SubSeq(s, k + 1, Len(s)))

\* strings.Join(list, " ")
RECURSIVE Join(_)
Join(list) ==
    IF list = <<>> THEN <<>>
    ELSE IF Len(list) = 1 THEN list[1]
    ELSE list[1] \o <<" ">> \o Join(Tail(list))

\* strconv.Itoa(n) for n >= 0
RECURSIVE Itoa(_)
Itoa(n) == IF n < 10 THEN <<ToString(n)>> ELSE Itoa(n \div 10) \o <<ToString(n % 10)>>

\* ---------------------------------------------------- regular expressions
\* The three patterns have the shape  HEAD (\S+) lit1 (\S+) lit2 ... (\S+) litn
\* where every lit starts with a space.  A group (\S+) followed by such a
\* literal can only be the whole run of non-space characters at its position,
\* so the match from a given position is unique.

\* Last position of the run of non-space characters of s that starts at p
\* (p - 1 when there is none).
RECURSIVE RunEnd(_, _)
RunEnd(s, p) ==
    IF p > Len(s) \/ s[p] = " " THEN p - 1 ELSE RunEnd(s, p + 1)

\* Whether literal lit occurs in s at position p.
LitAt(s, p, lit) ==
    p + Len(lit) - 1 <= Len(s) /\ SubSeq(s, p, p + Len(lit) - 1) = lit

\* Match  (\S+) lits[1] (\S+) lits[2] ...  anchored at position p:
\* [ok, caps (the captured groups), end (last matched position)].
RECURSIVE Groups(_, _, _)
Groups(s, p, lits) ==
    IF lits = <<>> THEN [ok |-> TRUE, caps |-> <<>>, end |-> p - 1]
    ELSE LET q == RunEnd(s, p)
         IN IF q < p \/ ~LitAt(s, q + 1, lits[1])
            THEN [ok |-> FALSE, caps |-> <<>>, end |-> 0]
            ELSE LET r == Groups(s, q + 1 + Len(lits[1]), Tail(lits))
                 IN IF r.ok
                    THEN [ok |-> TRUE, caps |-> <<SubSeq(s, p, q)>> \o r.caps, end |-> r.end]
                    ELSE r

\* re.FindStringSubmatch for a pattern  .*HEAD(\S+)lit1...  : the greedy .*
\* takes the LAST position of HEAD from which the groups match.  The result
\* is nil (<<>>) or <<whole match, group 1, ..., group n>>.
FindGreedy(s, head, lits) ==
    LET ks == {k \in 1..Len(s) : LitAt(s, k, head) /\ Groups(s, k + Len(head), lits).ok}
    IN IF ks = {} THEN <<>>
       ELSE LET k == CHOOSE x \in ks : \A y \in ks : y <= x
                r == Groups(s, k + Len(head), lits)
            IN <<SubSeq(s, 1, r.end)>> \o r.caps

\* re.FindStringSubmatch for a pattern  HEAD(\S+)lit1...  with no leading .* :
\* the leftmost position of HEAD from which the groups match.
FindLeftmost(s, head, lits) ==
    LET ks == {k \in 1..Len(s) : LitAt(s, k, head) /\ Groups(s, k + Len(head), lits).ok}
    IN IF ks = {} THEN <<>>
       ELSE LET k == CHOOSE x \in ks : \A y \in ks : x <= y
                r == Groups(s, k + Len(head), lits)
            IN <<SubSeq(s, k, r.end)>> \o r.caps

\* `.*: (\S+) total, (\S+) bytes; (\S+) new, (\S+) bytes`
FilesRe(line) ==
    FindGreedy(line, <<":", " ">>, <<<<" ", "t", "o", "t", "a", "l", ",", " ">>, <<" ", "b", "y", "t", "e", "s", ";", " ">>, <<" ", "n", "e", "w", ",", " ">>, <<" ", "b", "y", "t", "e", "s">>>>)

\* `.*: (\S+) total, (\S+) bytes; (\S+) new, (\S+) bytes, (\S+) bytes uploaded`
ChunksRe(line) ==
    FindGreedy(line, <<":", " ">>,
        <<<<" ", "t", "o", "t", "a", "l", ",", " ">>, <<" ", "b", "y", "t", "e", "s", ";", " ">>, <<" ", "n", "e", "w", ",", " ">>, <<" ", "b", "y", "t", "e", "s", ",", " ">>, <<" ", "b", "y", "t", "e", "s", " ", "u", "p", "l", "o", "a", "d", "e", "d">>>>)

\* `Copy complete, (\S+) total chunks, (\S+) chunks copied, (\S+) skipped`
CopyRe(line) ==
    FindLeftmost(line, <<"C", "o", "p", "y", " ", "c", "o", "m", "p", "l", "e", "t", "e", ",", " ">>,
        <<<<" ", "t", "o", "t", "a", "l", " ", "c", "h", "u", "n", "k", "s", ",", " ">>, <<" ", "c", "h", "u", "n", "k", "s", " ", "c", "o", "p", "i", "e", "d", ",", " ">>, <<" ", "s", "k", "i", "p", "p", "e", "d">>>>)

\* ------------------------------------------------------------ error values
\* The nil error.  An error value is a non-empty tuple <<message>> or
\* <<message, index>>.
Nil == <<>>

\* The errors the external collaborators (executor, rotateLogFiles, os.Create,
\* notifyOfSuccess) may return.
Errors == {<<"exit status 1">>, <<"exit status 2">>}

\* ------------------------------------------------------------ configuration
\* One element of configurationFile.BackupInfo.
BackupInfoRec(name, threads, vss, vssTimeout, quote) ==
    [Name |-> name, Threads |-> threads, Vss |-> vss, VssTimeout |-> vssTimeout,
     Quote |-> quote]

\* One element of configurationFile.CopyInfo.
CopyInfoRec(from, to, threads, quote) ==
    [From |-> from, To |-> to, Threads |-> threads, Quote |-> quote]

\* One element of configurationFile.PruneInfo.
PruneInfoRec(storage, keep, threads, all, quote) ==
    [Storage |-> storage, Keep |-> keep, Threads |-> threads, All |-> all,
     Quote |-> quote]

\* One element of configurationFile.CheckInfo.
CheckInfoRec(storage, all, quote) ==
    [Storage |-> storage, All |-> all, Quote |-> quote]

\* The configurationFile structure as yaml.Unmarshal leaves it.
ConfigRec(repoDir, backupInfo, copyInfo, pruneInfo, checkInfo) ==
    [RepoDir |-> repoDir, BackupInfo |-> backupInfo, CopyInfo |-> copyInfo,
     PruneInfo |-> pruneInfo, CheckInfo |-> checkInfo]

\* ------------------------------------------------------------- loadConfig
\* Each loop of loadConfig is a fold over the target list that carries the
\* (possibly modified) list, the current value of err and the errors logged
\* with logError(nil, ...).  An error is <<message, index>>.

\* for i, bi := range config.BackupInfo
RECURSIVE LoadBackupInfo(_, _, _, _)
LoadBackupInfo(infos, i, err, logged) ==
    IF i > Len(infos) THEN [infos |-> infos, err |-> err, logged |-> logged]
    ELSE LET bi == infos[i]
             e == <<"missing mandatory storage field: name", i - 1>>
             bad == bi.Name = <<>>
             infos1 == IF bi.Threads = <<>> THEN [infos EXCEPT ![i].Threads = <<"1">>]
                       ELSE infos
         IN LoadBackupInfo(infos1, i + 1, IF bad THEN e ELSE err,
                           IF bad THEN Append(logged, e) ELSE logged)

\* for i, ci := range config.CopyInfo
RECURSIVE LoadCopyInfo(_, _, _, _)
LoadCopyInfo(infos, i, err, logged) ==
    IF i > Len(infos) THEN [infos |-> infos, err |-> err, logged |-> logged]
    ELSE LET ci == infos[i]
             e1 == <<"missing mandatory from field: from", i - 1>>
             e2 == <<"missing mandatory to field: to", i - 1>>
             err1 == IF ci.From = <<>> THEN e1 ELSE err
             log1 == IF ci.From = <<>> THEN Append(logged, e1) ELSE logged
             err2 == IF ci.To = <<>> THEN e2 ELSE err1
             log2 == IF ci.To = <<>> THEN Append(log1, e2) ELSE log1
             infos1 == IF ci.Threads = <<>> THEN [infos EXCEPT ![i].Threads = <<"1">>]
                       ELSE infos
         IN LoadCopyInfo(infos1, i + 1, err2, log2)

\* Fault: the prefix is written without its trailing space ("-keep" + element).
KeepPrefix_noSpace(splitList) ==
    [k \in 1..Len(splitList) |-> <<"-", "k", "e", "e", "p">> \o splitList[k]]

\* splitList[i] = "-keep " + element, for every element of splitList
KeepPrefix(splitList) ==
    [k \in 1..Len(splitList) |-> <<"-", "k", "e", "e", "p", " ">> \o splitList[k]]

\* Split/join to get "-keep " before each element of the keep-spec.
ExpandKeep(keep) == Join(KeepPrefix(Split(keep)))

\* for i, pi := range config.PruneInfo
RECURSIVE LoadPruneInfo(_, _, _, _)
LoadPruneInfo(infos, i, err, logged) ==
    IF i > Len(infos) THEN [infos |-> infos, err |-> err, logged |-> logged]
    ELSE LET pi == infos[i]
             e1 == <<"missing mandatory prune field: storage", i - 1>>
             e2 == <<"missing mandatory prune field: keep", i - 1>>
             err1 == IF pi.Storage = <<>> THEN e1 ELSE err
             log1 == IF pi.Storage = <<>> THEN Append(logged, e1) ELSE logged
             err2 == IF pi.Keep = <<>> THEN e2 ELSE err1
             log2 == IF pi.Keep = <<>> THEN Append(log1, e2) ELSE log1
             infos1 == IF pi.Keep = <<>> THEN infos
                       ELSE [infos EXCEPT ![i].Keep = ExpandKeep(pi.Keep)]
             infos2 == IF pi.Threads = <<>> THEN [infos1 EXCEPT ![i].Threads = <<"1">>]
                       ELSE infos1
         IN LoadPruneInfo(infos2, i + 1, err2, log2)

\* for i, ci := range config.CheckInfo
RECURSIVE LoadCheckInfo(_, _, _, _)
LoadCheckInfo(infos, i, err, logged) ==
    IF i > Len(infos) THEN [infos |-> infos, err |-> err, logged |-> logged]
    ELSE LET ci == infos[i]
             e == <<"missing mandatory check field: storage", i - 1>>
             bad == ci.Storage = <<>>
         IN LoadCheckInfo(infos, i + 1, IF bad THEN e ELSE err,
                          IF bad THEN Append(logged, e) ELSE logged)

\* Fault: the copy loop starts with an error variable of its own, so what the
\* checks before it found is lost.
ValidateConfig_shadowedErr(cfg, repoExists) ==
    LET eRepo == <<"missing mandatory repository location", 0>>
        eStat == <<"stat: no such file or directory", 0>>
        eNoStorage == <<"no storage locations defined in configuration", 0>>
        eNoPrune == <<"no prune locations defined in configuration", 0>>
        eNoCheck == <<"no check locations defined in configuration", 0>>
        log0 == IF cfg.RepoDir = <<>> THEN <<eRepo>> ELSE <<>>
        \* `_, err = os.Stat(config.RepoDir)` assigns err whatever it held
        statOk == cfg.RepoDir # <<>> /\ repoExists
        err1 == IF statOk THEN Nil ELSE eStat
        log1 == IF statOk THEN log0 ELSE Append(log0, eStat)
        b == IF Len(cfg.BackupInfo) = 0
             THEN [infos |-> cfg.BackupInfo, err |-> eNoStorage,
                   logged |-> Append(log1, eNoStorage)]
             ELSE LoadBackupInfo(cfg.BackupInfo, 1, err1, log1)
        c == LoadCopyInfo(cfg.CopyInfo, 1, Nil, b.logged)
        err3 == IF Len(cfg.PruneInfo) = 0 THEN eNoPrune ELSE c.err
        log3 == IF Len(cfg.PruneInfo) = 0 THEN Append(c.logged, eNoPrune) ELSE c.logged
        p == LoadPruneInfo(cfg.PruneInfo, 1, err3, log3)
        k == IF Len(cfg.CheckInfo) = 0
             THEN [infos |-> cfg.CheckInfo, err |-> eNoCheck,
                   logged |-> Append(p.logged, eNoCheck)]
             ELSE LoadCheckInfo(cfg.CheckInfo, 1, p.err, p.logged)
    IN [config |-> ConfigRec(cfg.RepoDir, b.infos, c.infos, p.infos, k.infos),
        err |-> k.err, logged |-> k.logged]

\* The validation part of loadConfig (after the YAML was unmarshalled into
\* cfg): [config (as left behind), err (the value returned), logged].
\* repoExists: whether os.Stat(config.RepoDir) succeeds.
ValidateConfig(cfg, repoExists) ==
    LET eRepo == <<"missing mandatory repository location", 0>>
        eStat == <<"stat: no such file or directory", 0>>
        eNoStorage == <<"no storage locations defined in configuration", 0>>
        eNoPrune == <<"no prune locations defined in configuration", 0>>
        eNoCheck == <<"no check locations defined in configuration", 0>>
        log0 == IF cfg.RepoDir = <<>> THEN <<eRepo>> ELSE <<>>
        \* `_, err = os.Stat(config.RepoDir)` assigns err whatever it held
        statOk == cfg.RepoDir # <<>> /\ repoExists
        err1 == IF statOk THEN Nil ELSE eStat
        log1 == IF statOk THEN log0 ELSE Append(log0, eStat)
        b == IF Len(cfg.BackupInfo) = 0
             THEN [infos |-> cfg.BackupInfo, err |-> eNoStorage,
                   logged |-> Append(log1, eNoStorage)]
             ELSE LoadBackupInfo(cfg.BackupInfo, 1, err1, log1)
        c == LoadCopyInfo(cfg.CopyInfo, 1, b.err, b.logged)
        err3 == IF Len(cfg.PruneInfo) = 0 THEN eNoPrune ELSE c.err
        log3 == IF Len(cfg.PruneInfo) = 0 THEN Append(c.logged, eNoPrune) ELSE c.logged
        p == LoadPruneInfo(cfg.PruneInfo, 1, err3, log3)
        k == IF Len(cfg.CheckInfo) = 0
             THEN [infos |-> cfg.CheckInfo, err |-> eNoCheck,
                   logged |-> Append(p.logged, eNoCheck)]
             ELSE LoadCheckInfo(cfg.CheckInfo, 1, p.err, p.logged)
    IN [config |-> ConfigRec(cfg.RepoDir, b.infos, c.infos, p.infos, k.infos),
        err |-> k.err, logged |-> k.logged]

\* --------------------------------------------------------------- log lines
\* One call of the logging interface.  via: "Println" (logger.Println),
\* "logMessage" or "logError"; logger: whether a logger (the run's log file)
\* was passed, FALSE for nil; msg: the fixed message of the call ("" when the
\* text is an output line); text: the output line, or the string parameter
\* of the message.
LogRec(via, logger, msg, text) ==
    [via |-> via, logger |-> logger, msg |-> msg, text |-> text]

\* logger.Println("######...")
Separator == LogRec("Println", TRUE, "######", <<>>)

\* logger.Println(line)
Verbatim(line) == LogRec("Println", TRUE, "", line)

\* logMessage(logger, fmt.Sprint("  ", line))
Echo(line) == LogRec("logMessage", TRUE, "", <<" ", " ">> \o line)

\* logMessage(logger, "  Error: Duplicacy appears to be prompting for a password")
PasswordWarning ==
    LogRec("logMessage", TRUE, "  Error: Duplicacy appears to be prompting for a password", <<>>)

\* logError(logger, fmt.Sprint("Error executing command: ", err))
ExecError(err) == LogRec("logError", TRUE, "Error executing command: ", err)

\* ------------------------------------------------------------ revisions
\* The zero value of backupRevision.
ZeroBackupRevision ==
    [storage |-> <<>>, chunkTotalCount |-> <<>>, chunkTotalSize |-> <<>>,
     filesTotalCount |-> <<>>, filesTotalSize |-> <<>>, filesNewCount |-> <<>>,
     filesNewSize |-> <<>>, chunkNewCount |-> <<>>, chunkNewSize |-> <<>>,
     chunkNewUploaded |-> <<>>, duration |-> <<>>]

\* The zero value of copyRevision.
ZeroCopyRevision ==
    [storageFrom |-> <<>>, storageTo |-> <<>>, chunkTotalCount |-> <<>>,
     chunkCopyCount |-> <<>>, chunkSkipCount |-> <<>>, duration |-> <<>>]

\* Which case of backupLogger's switch a line takes.
BackupCase(line) ==
    IF HasPrefix(line, <<"F", "i", "l", "e", "s", ":">>) THEN "files"
    ELSE IF HasPrefix(line, <<"A", "l", "l", " ", "c", "h", "u", "n", "k", "s", ":">>) THEN "chunks"
    ELSE IF HasPrefix(line, <<"E", "n", "t", "e", "r", " ", "s", "t", "o", "r", "a", "g", "e", " ", "p", "a", "s", "s", "w", "o", "r", "d", ":">>)
            \/ HasSuffix(line, <<"A", "u", "t", "h", "o", "r", "i", "z", "a", "t", "i", "o", "n", " ", "f", "a", "i", "l", "u", "r", "e">>) THEN "password"
    ELSE "default"

\* Fault: the submatches are read from elements[0] on, the whole match first.
BackupObserve_offByOne(entry, line) ==
    CASE BackupCase(line) = "files" ->
           LET el == FilesRe(line)
           IN IF Len(el) >= 4
              THEN [entry EXCEPT !.filesTotalCount = el[1], !.filesTotalSize = el[2],
                                 !.filesNewCount = el[3], !.filesNewSize = el[4]]
              ELSE entry
      [] BackupCase(line) = "chunks" ->
           LET el == ChunksRe(line)
           IN IF Len(el) >= 6
              THEN [entry EXCEPT !.chunkTotalCount = el[1], !.chunkTotalSize = el[2],
                                 !.chunkNewCount = el[3], !.chunkNewSize = el[4],
                                 !.chunkNewUploaded = el[5]]
              ELSE entry
      [] OTHER -> entry

\* backupEntry after backupLogger(line).  Go's elements[k] is el[k + 1].
BackupObserve(entry, line) ==
    CASE BackupCase(line) = "files" ->
           LET el == FilesRe(line)
           IN IF Len(el) >= 4
              THEN [entry EXCEPT !.filesTotalCount = el[2], !.filesTotalSize = el[3],
                                 !.filesNewCount = el[4], !.filesNewSize = el[5]]
              ELSE entry
      [] BackupCase(line) = "chunks" ->
           LET el == ChunksRe(line)
           IN IF Len(el) >= 6
              THEN [entry EXCEPT !.chunkTotalCount = el[2], !.chunkTotalSize = el[3],
                                 !.chunkNewCount = el[4], !.chunkNewSize = el[5],
                                 !.chunkNewUploaded = el[6]]
              ELSE entry
      [] OTHER -> entry

\* Fault: a credential line is echoed under the warning but not written as
\* it came.
BackupLogged_warningOnly(line) ==
    CASE BackupCase(line) \in {"files", "chunks"} -> <<Verbatim(line), Echo(line)>>
      [] BackupCase(line) = "password" -> <<PasswordWarning, Echo(line)>>
      [] OTHER -> <<Verbatim(line)>>

\* What backupLogger(line) writes to the log.
BackupLogged(line) ==
    CASE BackupCase(line) \in {"files", "chunks"} -> <<Verbatim(line), Echo(line)>>
      [] BackupCase(line) = "password" -> <<PasswordWarning, Verbatim(line), Echo(line)>>
      [] OTHER -> <<Verbatim(line)>>

\* Fault: a line of the default case starts the record afresh.
CopyObserve_resetsOnOther(entry, line) ==
    IF HasPrefix(line, <<"C", "o", "p", "y", " ", "c", "o", "m", "p", "l", "e", "t", "e", ",", " ">>)
    THEN LET el == CopyRe(line)
         IN IF Len(el) >= 4
            THEN [entry EXCEPT !.chunkTotalCount = el[2], !.chunkCopyCount = el[3],
                               !.chunkSkipCount = el[4]]
            ELSE entry
    ELSE ZeroCopyRevision

\* Fault: the counts of a line are added to the text the record holds.
CopyObserve_accumulates(entry, line) ==
    IF HasPrefix(line, <<"C", "o", "p", "y", " ", "c", "o", "m", "p", "l", "e", "t", "e", ",", " ">>)
    THEN LET el == CopyRe(line)
         IN IF Len(el) >= 4
            THEN [entry EXCEPT !.chunkTotalCount = @ \o el[2], !.chunkCopyCount = @ \o el[3],
                               !.chunkSkipCount = @ \o el[4]]
            ELSE entry
    ELSE entry

\* copyEntry after copyLogger(line).
CopyObserve(entry, line) ==
    IF HasPrefix(line, <<"C", "o", "p", "y", " ", "c", "o", "m", "p", "l", "e", "t", "e", ",", " ">>)
    THEN LET el == CopyRe(line)
         IN IF Len(el) >= 4
            THEN [entry EXCEPT !.chunkTotalCount = el[2], !.chunkCopyCount = el[3],
                               !.chunkSkipCount = el[4]]
            ELSE entry
    ELSE entry

\* What copyLogger(line) writes to the log.
CopyLogged(line) ==
    IF HasPrefix(line, <<"C", "o", "p", "y", " ", "c", "o", "m", "p", "l", "e", "t", "e", ",", " ">>) THEN <<Verbatim(line), Echo(line)>>
    ELSE <<Verbatim(line)>>

\* What the line sink `anon` of prune and check writes to the log.
AnonLogged(line) == <<Verbatim(line)>>

\* ------------------------------------------------------- command arguments
\* cmdArgs as the unit-test support leaves it: a copy of testArgs whose
\* second element gets the suffix tag + Itoa(n) when the first is
\* "testbackup" (n is the 1-based number of the target, Go's i+1).
TestPrefix(tArgs, tag, n) ==
    IF Len(tArgs) > 0 /\ tArgs[1] = <<"t", "e", "s", "t", "b", "a", "c", "k", "u", "p">>
    THEN [tArgs EXCEPT ![2] = tArgs[2] \o tag \o Itoa(n)]
    ELSE tArgs

\* The argument appended for a non-empty quote string.
QuoteArg(quote) == IF quote # <<>> THEN <<<<" ">> \o quote>> ELSE <<>>

\* cmdArgs of performDuplicacyBackup for target number n.
BackupArgs(tArgs, n, info) ==
    TestPrefix(tArgs, <<"_", "b", "a", "c", "k", "u", "p">>, n)
    \o <<<<"b", "a", "c", "k", "u", "p">>, <<"-", "s", "t", "o", "r", "a", "g", "e">>, info.Name, <<"-", "s", "t", "a", "t", "s">>>>
    \o <<<<"-", "t", "h", "r", "e", "a", "d", "s">>, info.Threads>>
    \o (IF info.Vss
        THEN <<<<"-", "v", "s", "s">>>> \o (IF info.VssTimeout # <<>>
                            THEN <<<<"-", "v", "s", "s", "-", "t", "i", "m", "e", "o", "u", "t">>, info.VssTimeout>> ELSE <<>>)
        ELSE <<>>)
    \o QuoteArg(info.Quote)

\* cmdArgs of performDuplicacyCopy for target number n.
CopyArgs(tArgs, n, info) ==
    TestPrefix(tArgs, <<"_", "c", "o", "p", "y">>, n)
    \o <<<<"c", "o", "p", "y">>, <<"-", "f", "r", "o", "m">>, info.From, <<"-", "t", "o">>, info.To>>
    \o <<<<"-", "t", "h", "r", "e", "a", "d", "s">>, info.Threads>>
    \o QuoteArg(info.Quote)

\* Fault: the apply-to-all flag is appended before the thread count.
PruneArgs_allFirst(tArgs, n, info) ==
    tArgs
    \o <<<<"p", "r", "u", "n", "e">>, <<"-", "s", "t", "o", "r", "a", "g", "e">>, info.Storage>>
    \o Split(info.Keep)
    \o (IF info.All THEN <<<<"-", "a", "l", "l">>>> ELSE <<>>)
    \o <<<<"-", "t", "h", "r", "e", "a", "d", "s">>, info.Threads>>
    \o QuoteArg(info.Quote)

\* cmdArgs of performDuplicacyPrune for target number n: built on testArgs
\* itself (append(testArgs, ...)), so the renamed copy is dropped.
PruneArgs(tArgs, n, info) ==
    tArgs
    \o <<<<"p", "r", "u", "n", "e">>, <<"-", "s", "t", "o", "r", "a", "g", "e">>, info.Storage>>
    \o Split(info.Keep)
    \o <<<<"-", "t", "h", "r", "e", "a", "d", "s">>, info.Threads>>
    \o (IF info.All THEN <<<<"-", "a", "l", "l">>>> ELSE <<>>)
    \o QuoteArg(info.Quote)

\* cmdArgs of performDuplicacyCheck for target number n.
CheckArgs(tArgs, n, info) ==
    TestPrefix(tArgs, <<"_", "c", "h", "e", "c", "k">>, n)
    \o <<<<"c", "h", "e", "c", "k">>, <<"-", "s", "t", "o", "r", "a", "g", "e">>, info.Storage>>
    \o (IF info.All THEN <<<<"-", "a", "l", "l">>>> ELSE <<>>)
    \o QuoteArg(info.Quote)

\* The duration string saved in a revision: forced to "x seconds" under the
\* unit-test prefix, otherwise what getTimeDiffString returns.
Duration(args, measured) ==
    IF args[1] = <<"t", "e", "s", "t", "b", "a", "c", "k", "u", "p">> THEN <<"x", " ", "s", "e", "c", "o", "n", "d", "s">> ELSE measured

\* -------------------------------------------------------------------- state
VARIABLES
    configFile,   \* the global configFile (configurationFile)
    env,          \* what loadConfig is given: [fileStatus, yaml (the file's content
                  \* as yaml.Unmarshal decodes it), repoExists, verboseFlag]
    testArgs,     \* the testArgs parameter of the runners
    debugFlag,    \* the global debugFlag
    cmdBackup, cmdCopy, cmdPrune, cmdCheck,   \* the mode flags
    caller,       \* who calls the runners: "performBackup" or "test"
    pc,           \* the statement the program is at
    i,            \* 1-based number of the current target in the running loop
    cmdArgs,      \* cmdArgs of the current iteration
    backupEntry,  \* performDuplicacyBackup's backupEntry
    copyEntry,    \* performDuplicacyCopy's copyEntry
    backupTable,  \* the global backupTable
    copyTable,    \* the global copyTable
    log,          \* the calls of the logging interface, in order
    calls,        \* the executor invocations, in order, with the lines delivered
    events,       \* the collaborators called, in order
    runnerRet,    \* what each runner returned: <<"none">> until it returns
    ret,          \* what performBackup returned: <<"none">> until it returns
    loadErr       \* what loadConfig returned: <<"none">> until it returns

vars == <<configFile, env, testArgs, debugFlag, cmdBackup, cmdCopy, cmdPrune,
          cmdCheck, caller, pc, i, cmdArgs, backupEntry, copyEntry, backupTable,
          copyTable, log, calls, events, runnerRet, ret, loadErr>>

\* Not returned yet.
None == <<"none">>

\* -------------------------------------------------------------- the inputs
\* The n-th sample target of each kind, as written in the YAML file.
SampleName(n) == IF n = 1 THEN <<"p", "r", "i", "m", "a", "r", "y">> ELSE <<"s">> \o Itoa(n)

SampleBackup(n) ==
    IF n % 2 = 1 THEN BackupInfoRec(SampleName(n), <<>>, FALSE, <<>>, <<>>)
    ELSE BackupInfoRec(SampleName(n), <<"4">>, TRUE, <<"6", "0">>, <<"-", "x", " ", "y">>)

SampleCopy(n) ==
    IF n % 2 = 1 THEN CopyInfoRec(SampleName(n), <<"t">> \o Itoa(n), <<>>, <<>>)
    ELSE CopyInfoRec(SampleName(n), <<"t">> \o Itoa(n), <<"4">>, <<"-", "x", " ", "y">>)

SamplePrune(n) ==
    IF n % 2 = 1 THEN PruneInfoRec(SampleName(n), <<"7", " ", "3", "0">>, <<>>, TRUE, <<>>)
    ELSE PruneInfoRec(SampleName(n), <<"0", ":", "3", "6", "5">>, <<"4">>, FALSE, <<"-", "x", " ", "y">>)

SampleCheck(n) ==
    IF n % 2 = 1 THEN CheckInfoRec(SampleName(n), FALSE, <<>>)
    ELSE CheckInfoRec(SampleName(n), TRUE, <<"-", "x", " ", "y">>)

\* The configuration file with n sample targets of every kind.
SampleConfig(n) ==
    ConfigRec(<<"/", "r", "e", "p", "o">>, [k \in 1..n |-> SampleBackup(k)], [k \in 1..n |-> SampleCopy(k)],
              [k \in 1..n |-> SamplePrune(k)], [k \in 1..n |-> SampleCheck(k)])

\* What loadConfig is given in a run: a sample file with 1..MaxTargets targets
\* per kind, in an existing repository.
RunEnvs ==
    {[fileStatus |-> "ok", yaml |-> SampleConfig(n), repoExists |-> TRUE,
      verboseFlag |-> FALSE] : n \in 1..MaxTargets}

\* Lines the external tool may print.
FilesLine == <<"F", "i", "l", "e", "s", ":", " ", "1", "0", "0", " ", "t", "o", "t", "a", "l", ",", " ", "1", "0", "G", " ", "b", "y", "t", "e", "s", ";", " ", "5", " ", "n", "e", "w", ",", " ", "2", "0", "0", "M", " ", "b", "y", "t", "e", "s">>
FilesMismatch == <<"F", "i", "l", "e", "s", ":", " ", "1", "0", "0", " ", "i", "n", " ", "t", "o", "t", "a", "l">>
ChunksLine == <<"A", "l", "l", " ", "c", "h", "u", "n", "k", "s", ":", " ", "4", "0", "0", " ", "t", "o", "t", "a", "l", ",", " ", "1", "2", "G", " ", "b", "y", "t", "e", "s", ";", " ", "2", "0", " ", "n", "e", "w", ",", " ", "3", "0", "0", "M", " ", "b", "y", "t", "e", "s", ",", " ", "2", "9", "0", "M", " ", "b", "y", "t", "e", "s", " ", "u", "p", "l", "o", "a", "d", "e", "d">>
PasswordLine == <<"E", "n", "t", "e", "r", " ", "s", "t", "o", "r", "a", "g", "e", " ", "p", "a", "s", "s", "w", "o", "r", "d", ":", " ">>
AuthLine == <<"E", "R", "R", "O", "R", " ", "A", "u", "t", "h", "o", "r", "i", "z", "a", "t", "i", "o", "n", " ", "f", "a", "i", "l", "u", "r", "e">>
PlainLine == <<"B", "a", "c", "k", "u", "p", " ", "d", "o", "n", "e">>
CopyLine == <<"C", "o", "p", "y", " ", "c", "o", "m", "p", "l", "e", "t", "e", ",", " ", "1", "0", "7", " ", "t", "o", "t", "a", "l", " ", "c", "h", "u", "n", "k", "s", ",", " ", "0", " ", "c", "h", "u", "n", "k", "s", " ", "c", "o", "p", "i", "e", "d", ",", " ", "1", "0", "7", " ", "s", "k", "i", "p", "p", "e", "d">>
CopyMismatch == <<"C", "o", "p", "y", " ", "c", "o", "m", "p", "l", "e", "t", "e", ",", " ", "1", "0", "7", " ", "c", "h", "u", "n", "k", "s">>

\* The lines the tool may print during an invocation of each kind.
OutputLines(kind) ==
    CASE kind = "backup" -> {FilesLine, FilesMismatch, ChunksLine, PasswordLine,
                             AuthLine, PlainLine}
      [] kind = "copy" -> {CopyLine, CopyMismatch, PasswordLine}
      [] OTHER -> {PlainLine}

\* What getTimeDiffString may return for one target.
Durations == {<<"2", "s">>}

\* Number of lines delivered to the line sinks so far in this run.
RECURSIVE LinesIn(_)
LinesIn(cs) == IF cs = <<>> THEN 0 ELSE Len(cs[1].lines) + LinesIn(Tail(cs))

\* How many lines the tool prints at most: MaxLines in a run of performBackup,
\* MaxObserved when a runner is called on its own.
LineBudget == IF caller = "test" THEN MaxObserved ELSE MaxLines

\* ----------------------------------------------------------------- helpers
\* The record of one executor invocation.
CallRec(kind, n, args) ==
    [kind |-> kind, n |-> n, args |-> args, lines |-> <<>>, done |-> FALSE, err |-> Nil]

\* The executor was invoked with cmdArgs for target i of `kind`.
Invoke(kind, args) ==
    /\ cmdArgs' = args
    /\ calls' = Append(calls, CallRec(kind, i, args))
    /\ events' = Append(events, kind)

\* The line sink of the running invocation received `line`.
Deliver(line) ==
    calls' = [calls EXCEPT ![Len(calls)].lines = Append(@, line)]

\* The running invocation returned r.
Returned(r) ==
    calls' = [calls EXCEPT ![Len(calls)].done = TRUE, ![Len(calls)].err = r]

\* if debugFlag { logMessage(logger, fmt.Sprint("Executing: ", duplicacyPath, cmdArgs)) }
DebugLog == IF debugFlag THEN <<LogRec("logMessage", TRUE, "Executing: ", <<>>)>> ELSE <<>>

\* Fault: prune and copy change places in performBackup.
AfterKind_pruneFirst(kind) ==
    CASE kind = "backup" -> "cmdPrune"
      [] kind = "prune" -> "cmdCopy"
      [] kind = "copy" -> "cmdCheck"
      [] kind = "check" -> "notifyOfSuccess"

\* The statement of performBackup that follows the runner of `kind`.
AfterKind(kind) ==
    CASE kind = "backup" -> "cmdCopy"
      [] kind = "copy" -> "cmdPrune"
      [] kind = "prune" -> "cmdCheck"
      [] kind = "check" -> "notifyOfSuccess"

\* Fault: performBackup drops the runner's error and goes on.
RunnerReturns_ignoresError(kind, v) ==
    /\ runnerRet' = [runnerRet EXCEPT ![kind] = v]
    /\ IF caller = "test" THEN pc' = "done" /\ ret' = ret
       ELSE pc' = AfterKind(kind) /\ ret' = ret

\* The runner of `kind` returns v to its caller.  In performBackup,
\* `if err := performDuplicacyX(...); err != nil { return err }`.
RunnerReturns(kind, v) ==
    /\ runnerRet' = [runnerRet EXCEPT ![kind] = v]
    /\ IF caller = "test" THEN pc' = "done" /\ ret' = ret
       ELSE IF v # Nil THEN pc' = "done" /\ ret' = v
       ELSE pc' = AfterKind(kind) /\ ret' = ret

\* ----------------------------------------------------------- performBackup
\* Fault: the log file is open before the rotation, and the message goes to it.
performBackup_rotateLogFiles_logsFirst ==
    /\ pc = "rotateLogFiles"
    /\ events' = Append(events, "rotateLogFiles")
    /\ log' = Append(log, LogRec("logMessage", TRUE, "Rotating log files", <<>>))
    /\ \E r \in {Nil} \cup Errors :
          IF r # Nil THEN pc' = "done" /\ ret' = r
          ELSE pc' = "osCreate" /\ ret' = ret
    /\ UNCHANGED <<configFile, env, testArgs, debugFlag, cmdBackup, cmdCopy, cmdPrune,
                   cmdCheck, caller, i, cmdArgs, backupEntry, copyEntry, backupTable,
                   copyTable, calls, runnerRet, loadErr>>

\* logMessage(nil, "Rotating log files"); rotateLogFiles()
performBackup_rotateLogFiles ==
    /\ pc = "rotateLogFiles"
    /\ events' = Append(events, "rotateLogFiles")
    /\ log' = Append(log, LogRec("logMessage", FALSE, "Rotating log files", <<>>))
    /\ \E r \in {Nil} \cup Errors :
          IF r # Nil THEN pc' = "done" /\ ret' = r
          ELSE pc' = "osCreate" /\ ret' = ret
    /\ UNCHANGED <<configFile, env, testArgs, debugFlag, cmdBackup, cmdCopy, cmdPrune,
                   cmdCheck, caller, i, cmdArgs, backupEntry, copyEntry, backupTable,
                   copyTable, calls, runnerRet, loadErr>>

\* os.Create(<cmdConfig>.log), log.New, logMessage(logger, "Beginning backup on ...")
performBackup_osCreate ==
    /\ pc = "osCreate"
    /\ events' = Append(events, "osCreate")
    /\ \E r \in {Nil} \cup Errors :
          IF r # Nil
          THEN /\ log' = Append(log, LogRec("logError", FALSE, "Error: ", r))
               /\ pc' = "done" /\ ret' = r
          ELSE /\ log' = Append(log, LogRec("logMessage", TRUE, "Beginning backup on ", <<>>))
               /\ pc' = "notifyOfStart" /\ ret' = ret
    /\ UNCHANGED <<configFile, env, testArgs, debugFlag, cmdBackup, cmdCopy, cmdPrune,
                   cmdCheck, caller, i, cmdArgs, backupEntry, copyEntry, backupTable,
                   copyTable, calls, runnerRet, loadErr>>

\* Fault: the start is notified only when a backup is requested.
performBackup_notifyOfStart_onlyForBackup ==
    /\ pc = "notifyOfStart"
    /\ events' = IF cmdBackup THEN Append(events, "notifyOfStart") ELSE events
    /\ pc' = "cmdBackup"
    /\ UNCHANGED <<configFile, env, testArgs, debugFlag, cmdBackup, cmdCopy, cmdPrune,
                   cmdCheck, caller, i, cmdArgs, backupEntry, copyEntry, backupTable,
                   copyTable, log, calls, runnerRet, ret, loadErr>>

\* notifyOfStart()
performBackup_notifyOfStart ==
    /\ pc = "notifyOfStart"
    /\ events' = Append(events, "notifyOfStart")
    /\ pc' = "cmdBackup"
    /\ UNCHANGED <<configFile, env, testArgs, debugFlag, cmdBackup, cmdCopy, cmdPrune,
                   cmdCheck, caller, i, cmdArgs, backupEntry, copyEntry, backupTable,
                   copyTable, log, calls, runnerRet, ret, loadErr>>

\* if cmdBackup { performDuplicacyBackup(logger, []string{}) }: the call
\* declares a fresh backupEntry and starts the loop.
performBackup_cmdBackup ==
    /\ pc = "cmdBackup"
    /\ IF cmdBackup
       THEN pc' = "backupLoop" /\ i' = 1 /\ backupEntry' = ZeroBackupRevision
       ELSE pc' = "cmdCopy" /\ UNCHANGED <<i, backupEntry>>
    /\ UNCHANGED <<configFile, env, testArgs, debugFlag, cmdBackup, cmdCopy, cmdPrune,
                   cmdCheck, caller, cmdArgs, copyEntry, backupTable, copyTable, log,
                   calls, events, runnerRet, ret, loadErr>>

\* if cmdCopy { performDuplicacyCopy(logger, []string{}) }
performBackup_cmdCopy ==
    /\ pc = "cmdCopy"
    /\ IF cmdCopy
       THEN pc' = "copyLoop" /\ i' = 1 /\ copyEntry' = ZeroCopyRevision
       ELSE pc' = "cmdPrune" /\ UNCHANGED <<i, copyEntry>>
    /\ UNCHANGED <<configFile, env, testArgs, debugFlag, cmdBackup, cmdCopy, cmdPrune,
                   cmdCheck, caller, cmdArgs, backupEntry, backupTable, copyTable, log,
                   calls, events, runnerRet, ret, loadErr>>

\* if cmdPrune { performDuplicacyPrune(logger, []string{}) }
performBackup_cmdPrune ==
    /\ pc = "cmdPrune"
    /\ IF cmdPrune THEN pc' = "pruneLoop" /\ i' = 1
       ELSE pc' = "cmdCheck" /\ UNCHANGED i
    /\ UNCHANGED <<configFile, env, testArgs, debugFlag, cmdBackup, cmdCopy, cmdPrune,
                   cmdCheck, caller, cmdArgs, backupEntry, copyEntry, backupTable,
                   copyTable, log, calls, events, runnerRet, ret, loadErr>>

\* Fault: without a check to run, performBackup returns nil at once.
performBackup_cmdCheck_returnsEarly ==
    /\ pc = "cmdCheck"
    /\ IF cmdCheck THEN pc' = "checkLoop" /\ i' = 1 /\ ret' = ret
       ELSE pc' = "done" /\ ret' = Nil /\ UNCHANGED i
    /\ UNCHANGED <<configFile, env, testArgs, debugFlag, cmdBackup, cmdCopy, cmdPrune,
                   cmdCheck, caller, cmdArgs, backupEntry, copyEntry, backupTable,
                   copyTable, log, calls, events, runnerRet, loadErr>>

\* if cmdCheck { performDuplicacyCheck(logger, []string{}) }
performBackup_cmdCheck ==
    /\ pc = "cmdCheck"
    /\ IF cmdCheck THEN pc' = "checkLoop" /\ i' = 1
       ELSE pc' = "notifyOfSuccess" /\ UNCHANGED i
    /\ UNCHANGED <<configFile, env, testArgs, debugFlag, cmdBackup, cmdCopy, cmdPrune,
                   cmdCheck, caller, cmdArgs, backupEntry, copyEntry, backupTable,
                   copyTable, log, calls, events, runnerRet, ret, loadErr>>

\* logger.Println("####"); logMessage(logger, "Operations completed in ...");
\* err = notifyOfSuccess(); return err
performBackup_notifyOfSuccess ==
    /\ pc = "notifyOfSuccess"
    /\ log' = log \o <<Separator, LogRec("logMessage", TRUE, "Operations completed in ", <<>>)>>
    /\ events' = Append(events, "notifyOfSuccess")
    /\ \E r \in {Nil} \cup Errors : ret' = r
    /\ pc' = "done"
    /\ UNCHANGED <<configFile, env, testArgs, debugFlag, cmdBackup, cmdCopy, cmdPrune,
                   cmdCheck, caller, i, cmdArgs, backupEntry, copyEntry, backupTable,
                   copyTable, calls, runnerRet, loadErr>>

\* ------------------------------------------------- performDuplicacyBackup
\* The head of `for i, backupInfo := range configFile.BackupInfo`: either
\* the loop is over and the runner returns nil, or the body runs up to the
\* call of the executor.
performDuplicacyBackup ==
    /\ pc = "backupLoop"
    /\ IF i > Len(configFile.BackupInfo)
       THEN /\ RunnerReturns("backup", Nil)
            /\ UNCHANGED <<cmdArgs, calls, events, log>>
       ELSE LET info == configFile.BackupInfo[i]
            IN /\ Invoke("backup", BackupArgs(testArgs, i, info))
               /\ log' = log \o <<Separator,
                                  LogRec("Printf", FALSE, "BACKUP: ", info.Name),
                                  LogRec("logMessage", TRUE, "Backing up to storage ", info.Name)>>
                             \o DebugLog
               /\ pc' = "backupExec"
               /\ UNCHANGED <<runnerRet, ret>>
    /\ UNCHANGED <<configFile, env, testArgs, debugFlag, cmdBackup, cmdCopy, cmdPrune,
                   cmdCheck, caller, i, backupEntry, copyEntry, backupTable, copyTable,
                   loadErr>>

\* Fault: the table holds the record itself instead of a copy, so a line
\* observed later is written into the entry appended last.
backupLogger_writesTable(line) ==
    /\ pc = "backupExec"
    /\ LinesIn(calls) < LineBudget
    /\ backupEntry' = BackupObserve(backupEntry, line)
    /\ backupTable' = IF backupTable = <<>> THEN backupTable
                      ELSE [backupTable EXCEPT ![Len(backupTable)] = BackupObserve(@, line)]
    /\ log' = log \o BackupLogged(line)
    /\ Deliver(line)
    /\ UNCHANGED <<configFile, env, testArgs, debugFlag, cmdBackup, cmdCopy, cmdPrune,
                   cmdCheck, caller, pc, i, cmdArgs, copyEntry, copyTable,
                   events, runnerRet, ret, loadErr>>

\* The executor hands one output line to backupLogger.
backupLogger(line) ==
    /\ pc = "backupExec"
    /\ LinesIn(calls) < LineBudget
    /\ backupEntry' = BackupObserve(backupEntry, line)
    /\ log' = log \o BackupLogged(line)
    /\ Deliver(line)
    /\ UNCHANGED <<configFile, env, testArgs, debugFlag, cmdBackup, cmdCopy, cmdPrune,
                   cmdCheck, caller, pc, i, cmdArgs, copyEntry, backupTable, copyTable,
                   events, runnerRet, ret, loadErr>>

\* Fault: the target's name is not stored in the entry.
BackupFinal_noStorage(entry, info, duration) ==
    [entry EXCEPT !.duration = duration]

\* backupEntry with the target's name and duration, as appended to backupTable.
BackupFinal(entry, info, duration) ==
    [entry EXCEPT !.storage = info.Name, !.duration = duration]

\* Fault: the entry is appended before the executor's error is looked at.
backupExecutor_appendsOnError(r) ==
    /\ pc = "backupExec"
    /\ Returned(r)
    /\ \E d \in Durations :
         LET dur == Duration(cmdArgs, d)
             entry == BackupFinal(backupEntry, configFile.BackupInfo[i], dur)
         IN /\ backupEntry' = entry
            /\ backupTable' = Append(backupTable, entry)
            /\ IF r # Nil
               THEN /\ log' = Append(log, ExecError(r))
                    /\ RunnerReturns("backup", r)
                    /\ UNCHANGED i
               ELSE /\ log' = Append(log, LogRec("logMessage", TRUE, "  Duration: ", dur))
                    /\ i' = i + 1
                    /\ pc' = "backupLoop"
                    /\ UNCHANGED <<runnerRet, ret>>
    /\ UNCHANGED <<configFile, env, testArgs, debugFlag, cmdBackup, cmdCopy, cmdPrune,
                   cmdCheck, caller, cmdArgs, copyEntry, copyTable, events, loadErr>>

\* The executor returns r to performDuplicacyBackup: on an error the runner
\* logs it and returns it; otherwise the entry is saved and the loop goes on.
backupExecutor(r) ==
    /\ pc = "backupExec"
    /\ Returned(r)
    /\ IF r # Nil
       THEN /\ log' = Append(log, ExecError(r))
            /\ RunnerReturns("backup", r)
            /\ UNCHANGED <<i, backupEntry, backupTable>>
       ELSE \E d \in Durations :
            LET dur == Duration(cmdArgs, d)
                entry == BackupFinal(backupEntry, configFile.BackupInfo[i], dur)
            IN /\ log' = Append(log, LogRec("logMessage", TRUE, "  Duration: ", dur))
               /\ backupEntry' = entry
               /\ backupTable' = Append(backupTable, entry)
               /\ i' = i + 1
               /\ pc' = "backupLoop"
               /\ UNCHANGED <<runnerRet, ret>>
    /\ UNCHANGED <<configFile, env, testArgs, debugFlag, cmdBackup, cmdCopy, cmdPrune,
                   cmdCheck, caller, cmdArgs, copyEntry, copyTable, events, loadErr>>

\* --------------------------------------------------- performDuplicacyCopy
performDuplicacyCopy ==
    /\ pc = "copyLoop"
    /\ IF i > Len(configFile.CopyInfo)
       THEN /\ RunnerReturns("copy", Nil)
            /\ UNCHANGED <<cmdArgs, calls, events, log>>
       ELSE LET info == configFile.CopyInfo[i]
            IN /\ Invoke("copy", CopyArgs(testArgs, i, info))
               /\ log' = log \o <<Separator,
                                  LogRec("logMessage", TRUE, "Copying from storage ", info.From)>>
                             \o DebugLog
               /\ pc' = "copyExec"
               /\ UNCHANGED <<runnerRet, ret>>
    /\ UNCHANGED <<configFile, env, testArgs, debugFlag, cmdBackup, cmdCopy, cmdPrune,
                   cmdCheck, caller, i, backupEntry, copyEntry, backupTable, copyTable,
                   loadErr>>

\* The executor hands one output line to copyLogger.
copyLogger(line) ==
    /\ pc = "copyExec"
    /\ LinesIn(calls) < LineBudget
    /\ copyEntry' = CopyObserve(copyEntry, line)
    /\ log' = log \o CopyLogged(line)
    /\ Deliver(line)
    /\ UNCHANGED <<configFile, env, testArgs, debugFlag, cmdBackup, cmdCopy, cmdPrune,
                   cmdCheck, caller, pc, i, cmdArgs, backupEntry, backupTable, copyTable,
                   events, runnerRet, ret, loadErr>>

\* copyEntry with the target's identifiers and duration, as appended to copyTable.
CopyFinal(entry, info, duration) ==
    [entry EXCEPT !.storageFrom = info.From, !.storageTo = info.To,
                  !.duration = duration]

\* Fault: a record without counts is not appended.
copyExecutor_skipsIncomplete(r) ==
    /\ pc = "copyExec"
    /\ Returned(r)
    /\ IF r # Nil
       THEN /\ log' = Append(log, ExecError(r))
            /\ RunnerReturns("copy", r)
            /\ UNCHANGED <<i, copyEntry, copyTable>>
       ELSE \E d \in Durations :
            LET dur == Duration(cmdArgs, d)
                entry == CopyFinal(copyEntry, configFile.CopyInfo[i], dur)
            IN /\ log' = Append(log, LogRec("logMessage", TRUE, "  Duration: ", dur))
               /\ copyEntry' = entry
               /\ copyTable' = IF copyEntry.chunkTotalCount = <<>> THEN copyTable
                               ELSE Append(copyTable, entry)
               /\ i' = i + 1
               /\ pc' = "copyLoop"
               /\ UNCHANGED <<runnerRet, ret>>
    /\ UNCHANGED <<configFile, env, testArgs, debugFlag, cmdBackup, cmdCopy, cmdPrune,
                   cmdCheck, caller, cmdArgs, backupEntry, backupTable, events, loadErr>>

\* The executor returns r to performDuplicacyCopy.
copyExecutor(r) ==
    /\ pc = "copyExec"
    /\ Returned(r)
    /\ IF r # Nil
       THEN /\ log' = Append(log, ExecError(r))
            /\ RunnerReturns("copy", r)
            /\ UNCHANGED <<i, copyEntry, copyTable>>
       ELSE \E d \in Durations :
            LET dur == Duration(cmdArgs, d)
                entry == CopyFinal(copyEntry, configFile.CopyInfo[i], dur)
            IN /\ log' = Append(log, LogRec("logMessage", TRUE, "  Duration: ", dur))
               /\ copyEntry' = entry
               /\ copyTable' = Append(copyTable, entry)
               /\ i' = i + 1
               /\ pc' = "copyLoop"
               /\ UNCHANGED <<runnerRet, ret>>
    /\ UNCHANGED <<configFile, env, testArgs, debugFlag, cmdBackup, cmdCopy, cmdPrune,
                   cmdCheck, caller, cmdArgs, backupEntry, backupTable, events, loadErr>>

\* -------------------------------------------------- performDuplicacyPrune
performDuplicacyPrune ==
    /\ pc = "pruneLoop"
    /\ IF i > Len(configFile.PruneInfo)
       THEN /\ RunnerReturns("prune", Nil)
            /\ UNCHANGED <<cmdArgs, calls, events, log>>
       ELSE LET info == configFile.PruneInfo[i]
            IN /\ Invoke("prune", PruneArgs(testArgs, i, info))
               /\ log' = log \o <<Separator,
                                  LogRec("logMessage", TRUE, "Pruning storage ", info.Storage)>>
                             \o DebugLog
               /\ pc' = "pruneExec"
               /\ UNCHANGED <<runnerRet, ret>>
    /\ UNCHANGED <<configFile, env, testArgs, debugFlag, cmdBackup, cmdCopy, cmdPrune,
                   cmdCheck, caller, i, backupEntry, copyEntry, backupTable, copyTable,
                   loadErr>>

\* The executor hands one output line to performDuplicacyPrune's anon.
pruneAnon(line) ==
    /\ pc = "pruneExec"
    /\ LinesIn(calls) < LineBudget
    /\ log' = log \o AnonLogged(line)
    /\ Deliver(line)
    /\ UNCHANGED <<configFile, env, testArgs, debugFlag, cmdBackup, cmdCopy, cmdPrune,
                   cmdCheck, caller, pc, i, cmdArgs, backupEntry, copyEntry, backupTable,
                   copyTable, events, runnerRet, ret, loadErr>>

\* Fault: a target whose invocation failed is tried once more.
pruneExecutor_retriesOnce(r) ==
    /\ pc = "pruneExec"
    /\ Returned(r)
    /\ IF r # Nil
       THEN IF Cardinality({k \in 1..Len(calls) : calls[k].kind = "prune" /\ calls[k].n = i}) = 1
            THEN /\ log' = Append(log, ExecError(r))
                 /\ pc' = "pruneLoop"
                 /\ UNCHANGED <<i, runnerRet, ret>>
            ELSE /\ log' = Append(log, ExecError(r))
                 /\ RunnerReturns("prune", r)
                 /\ UNCHANGED i
       ELSE /\ i' = i + 1
            /\ pc' = "pruneLoop"
            /\ UNCHANGED <<log, runnerRet, ret>>
    /\ UNCHANGED <<configFile, env, testArgs, debugFlag, cmdBackup, cmdCopy, cmdPrune,
                   cmdCheck, caller, cmdArgs, backupEntry, copyEntry, backupTable,
                   copyTable, events, loadErr>>

\* The executor returns r to performDuplicacyPrune.
pruneExecutor(r) ==
    /\ pc = "pruneExec"
    /\ Returned(r)
    /\ IF r # Nil
       THEN /\ log' = Append(log, ExecError(r))
            /\ RunnerReturns("prune", r)
            /\ UNCHANGED i
       ELSE /\ i' = i + 1
            /\ pc' = "pruneLoop"
            /\ UNCHANGED <<log, runnerRet, ret>>
    /\ UNCHANGED <<configFile, env, testArgs, debugFlag, cmdBackup, cmdCopy, cmdPrune,
                   cmdCheck, caller, cmdArgs, backupEntry, copyEntry, backupTable,
                   copyTable, events, loadErr>>

\* -------------------------------------------------- performDuplicacyCheck
performDuplicacyCheck ==
    /\ pc = "checkLoop"
    /\ IF i > Len(configFile.CheckInfo)
       THEN /\ RunnerReturns("check", Nil)
            /\ UNCHANGED <<cmdArgs, calls, events, log>>
       ELSE LET info == configFile.CheckInfo[i]
            IN /\ Invoke("check", CheckArgs(testArgs, i, info))
               /\ log' = log \o <<Separator,
                                  LogRec("logMessage", TRUE, "Checking storage ", info.Storage)>>
                             \o DebugLog
               /\ pc' = "checkExec"
               /\ UNCHANGED <<runnerRet, ret>>
    /\ UNCHANGED <<configFile, env, testArgs, debugFlag, cmdBackup, cmdCopy, cmdPrune,
                   cmdCheck, caller, i, backupEntry, copyEntry, backupTable, copyTable,
                   loadErr>>

\* The executor hands one output line to performDuplicacyCheck's anon.
checkAnon(line) ==
    /\ pc = "checkExec"
    /\ LinesIn(calls) < LineBudget
    /\ log' = log \o AnonLogged(line)
    /\ Deliver(line)
    /\ UNCHANGED <<configFile, env, testArgs, debugFlag, cmdBackup, cmdCopy, cmdPrune,
                   cmdCheck, caller, pc, i, cmdArgs, backupEntry, copyEntry, backupTable,
                   copyTable, events, runnerRet, ret, loadErr>>

\* The executor returns r to performDuplicacyCheck.
checkExecutor(r) ==
    /\ pc = "checkExec"
    /\ Returned(r)
    /\ IF r # Nil
       THEN /\ log' = Append(log, ExecError(r))
            /\ RunnerReturns("check", r)
            /\ UNCHANGED i
       ELSE /\ i' = i + 1
            /\ pc' = "checkLoop"
            /\ UNCHANGED <<log, runnerRet, ret>>
    /\ UNCHANGED <<configFile, env, testArgs, debugFlag, cmdBackup, cmdCopy, cmdPrune,
                   cmdCheck, caller, cmdArgs, backupEntry, copyEntry, backupTable,
                   copyTable, events, loadErr>>

\* ------------------------------------------------------------- the run
NoReturns == [k \in {"backup", "copy", "prune", "check"} |-> None]

\* A run of performBackup on the configuration loadConfig left behind (it
\* returned nil): the mode flags are the command line's, the Result Tables
\* are empty.
Init ==
    /\ env \in RunEnvs
    /\ configFile = ValidateConfig(env.yaml, env.repoExists).config
    /\ testArgs = <<>>
    /\ debugFlag = FALSE
    /\ cmdBackup \in BOOLEAN /\ cmdCopy \in BOOLEAN
    /\ cmdPrune \in BOOLEAN /\ cmdCheck \in BOOLEAN
    /\ caller = "performBackup"
    /\ pc = "rotateLogFiles"
    /\ i = 0
    /\ cmdArgs = <<>>
    /\ backupEntry = ZeroBackupRevision
    /\ copyEntry = ZeroCopyRevision
    /\ backupTable = <<>>
    /\ copyTable = <<>>
    /\ log = <<>>
    /\ calls = <<>>
    /\ events = <<>>
    /\ runnerRet = NoReturns
    /\ ret = None
    /\ loadErr = Nil

Next ==
    \/ performBackup_rotateLogFiles
    \/ performBackup_osCreate
    \/ performBackup_notifyOfStart
    \/ performBackup_cmdBackup
    \/ performBackup_cmdCopy
    \/ performBackup_cmdPrune
    \/ performBackup_cmdCheck
    \/ performBackup_notifyOfSuccess
    \/ performDuplicacyBackup
    \/ \E line \in OutputLines("backup") : backupLogger(line)
    \/ \E r \in {Nil} \cup Errors : backupExecutor(r)
    \/ performDuplicacyCopy
    \/ \E line \in OutputLines("copy") : copyLogger(line)
    \/ \E r \in {Nil} \cup Errors : copyExecutor(r)
    \/ performDuplicacyPrune
    \/ \E line \in OutputLines("prune") : pruneAnon(line)
    \/ \E r \in {Nil} \cup Errors : pruneExecutor(r)
    \/ performDuplicacyCheck
    \/ \E line \in OutputLines("check") : checkAnon(line)
    \/ \E r \in {Nil} \cup Errors : checkExecutor(r)

Spec == Init /\ [][Next]_vars

\* ---------------------------------------------------------------- fairness
\* A statement of performBackup or of a runner: the program is sequential and
\* takes its next step whenever it is not waiting for the executor.
ProgramStep ==
    \/ performBackup_rotateLogFiles
    \/ performBackup_osCreate
    \/ performBackup_notifyOfStart
    \/ performBackup_cmdBackup
    \/ performBackup_cmdCopy
    \/ performBackup_cmdPrune
    \/ performBackup_cmdCheck
    \/ performBackup_notifyOfSuccess
    \/ performDuplicacyBackup
    \/ performDuplicacyCopy
    \/ performDuplicacyPrune
    \/ performDuplicacyCheck

\* The running executor invocation returns.
ExecutorReturns ==
    \E r \in {Nil} \cup Errors :
        backupExecutor(r) \/ copyExecutor(r) \/ pruneExecutor(r) \/ checkExecutor(r)

\* The lines the tool prints in the runs checked for termination: a
\* credential prompt during a backup or a copy, a plain line otherwise.
FairLines(kind) == IF kind \in {"backup", "copy"} THEN {PasswordLine} ELSE {PlainLine}

\* A step of such a run: the program's, the executor's return, or a line
\* handed to the sink of the running invocation.
NextFair ==
    \/ ProgramStep
    \/ ExecutorReturns
    \/ \E line \in FairLines("backup") : backupLogger(line)
    \/ \E line \in FairLines("copy") : copyLogger(line)
    \/ \E line \in FairLines("prune") : pruneAnon(line)
    \/ \E line \in FairLines("check") : checkAnon(line)

\* A run of performBackup in which the program goes on and every executor
\* invocation eventually returns.
SpecFair == Init /\ [][NextFair]_vars /\ WF_vars(ProgramStep) /\ WF_vars(ExecutorReturns)

\* ------------------------------------------------ loadConfig and the tests
\* new(configurationFile)
EmptyConfig == ConfigRec(<<>>, <<>>, <<>>, <<>>, <<>>)

\* The verbose listing of loadConfig: a header per kind and a line per target.
VerboseLog(cfg) ==
    <<LogRec("logMessage", FALSE, "Backup Information:", <<>>)>>
    \o [k \in 1..Len(cfg.BackupInfo) |->
          LogRec("logMessage", FALSE, "backup", cfg.BackupInfo[k].Name)]
    \o (IF Len(cfg.CopyInfo) # 0
        THEN <<LogRec("logMessage", FALSE, "Copy Information:", <<>>)>>
             \o [k \in 1..Len(cfg.CopyInfo) |->
                   LogRec("logMessage", FALSE, "copy", cfg.CopyInfo[k].From)]
        ELSE <<>>)
    \o <<LogRec("logMessage", FALSE, "Prune Information:", <<>>)>>
    \o [k \in 1..Len(cfg.PruneInfo) |->
          LogRec("logMessage", FALSE, "prune", cfg.PruneInfo[k].Keep)]
    \o <<LogRec("logMessage", FALSE, "Check Information:", <<>>)>>
    \o [k \in 1..Len(cfg.CheckInfo) |->
          LogRec("logMessage", FALSE, "check", cfg.CheckInfo[k].Storage)]

\* logError(nil, fmt.Sprint("Error: ", err)) for each error in turn
ErrorLog(errs) == [k \in 1..Len(errs) |-> LogRec("logError", FALSE, "Error: ", errs[k])]

\* config.loadConfig(verboseFlag, debugFlag)
loadConfig ==
    /\ pc = "loadConfig"
    /\ events' = Append(events, "loadConfig")
    /\ IF env.fileStatus # "ok"
       THEN \* os.Stat, ioutil.ReadFile or yaml.Unmarshal failed: return err
            LET e == <<env.fileStatus, 0>>
            IN /\ log' = log \o ErrorLog(<<e>>)
               /\ loadErr' = e
               /\ configFile' = configFile
               /\ pc' = "done"
       ELSE LET v == ValidateConfig(env.yaml, env.repoExists)
            IN /\ configFile' = v.config
               /\ loadErr' = v.err
               /\ log' = log \o ErrorLog(v.logged)
                             \o (IF v.err = Nil
                                 THEN <<LogRec("logMessage", FALSE, "Using config file:   ", <<>>)>>
                                      \o (IF env.verboseFlag THEN VerboseLog(v.config) ELSE <<>>)
                                      \o (IF debugFlag
                                          THEN <<LogRec("logMessage", FALSE, "Backup Info: ", <<>>)>>
                                          ELSE <<>>)
                                 ELSE <<>>)
               /\ pc' = IF v.err = Nil THEN "test" ELSE "done"
    /\ UNCHANGED <<env, testArgs, debugFlag, cmdBackup, cmdCopy, cmdPrune, cmdCheck,
                   caller, i, cmdArgs, backupEntry, copyEntry, backupTable, copyTable,
                   calls, runnerRet, ret>>

\* A unit test calls one runner with its testArgs on the loaded configuration.
callRunner(kind) ==
    /\ pc = "test"
    /\ pc' = kind \o "Loop"
    /\ i' = 1
    /\ backupEntry' = IF kind = "backup" THEN ZeroBackupRevision ELSE backupEntry
    /\ copyEntry' = IF kind = "copy" THEN ZeroCopyRevision ELSE copyEntry
    /\ UNCHANGED <<configFile, env, testArgs, debugFlag, cmdBackup, cmdCopy, cmdPrune,
                   cmdCheck, caller, cmdArgs, backupTable, copyTable, log, calls, events,
                   runnerRet, ret, loadErr>>

\* The retention rules a keep-spec is made of.
KeepRules == {<<"7">>, <<"0", ":", "3", "6", "5">>}

\* The keep-specs of the YAML files: none, 1..MaxKeep rules separated by
\* single spaces, and one with a double space.
KeepSpecs ==
    {<<>>, <<"7", " ", " ", "3", "0">>}
    \cup UNION {{Join(f) : f \in [1..n -> KeepRules]} : n \in 1..MaxKeep}

\* The targets a YAML file may hold.
BackupTargets ==
    {BackupInfoRec(n, t, v, vt, q) :
        n \in {<<>>, <<"b">>}, t \in {<<>>, <<"4">>}, v \in BOOLEAN,
        vt \in {<<>>, <<"6", "0">>}, q \in {<<>>, <<"-", "x", " ", "y">>}}

CopyTargets ==
    {CopyInfoRec(f, t, th, q) :
        f \in {<<>>, <<"b">>}, t \in {<<>>, <<"c">>}, th \in {<<>>, <<"4">>}, q \in {<<>>, <<"-", "x", " ", "y">>}}

PruneTargets ==
    {PruneInfoRec(s, k, th, a, q) :
        s \in {<<>>, <<"b">>}, k \in KeepSpecs, th \in {<<>>, <<"4">>}, a \in BOOLEAN,
        q \in {<<>>, <<"-", "x", " ", "y">>}}

CheckTargets ==
    {CheckInfoRec(s, a, q) : s \in {<<>>, <<"b">>}, a \in BOOLEAN, q \in {<<>>, <<"-", "x", " ", "y">>}}

\* The sample file of n targets per kind with target number j of one kind
\* replaced by any target of that kind.
VariedConfigs(n, j) ==
    {[SampleConfig(n) EXCEPT !.BackupInfo[j] = r] : r \in BackupTargets}
    \cup {[SampleConfig(n) EXCEPT !.CopyInfo[j] = r] : r \in CopyTargets}
    \cup {[SampleConfig(n) EXCEPT !.PruneInfo[j] = r] : r \in PruneTargets}
    \cup {[SampleConfig(n) EXCEPT !.CheckInfo[j] = r] : r \in CheckTargets}

\* The YAML files of the tests: the varied sample files, and the one-target
\* sample file with the repository or one kind left out.
TestConfigs ==
    UNION {UNION {VariedConfigs(n, j) : j \in 1..n} : n \in 1..MaxTargets}
    \cup {[SampleConfig(1) EXCEPT ![f] = <<>>] :
            f \in {"RepoDir", "BackupInfo", "CopyInfo", "PruneInfo", "CheckInfo"}}

\* What loadConfig is given in the tests: any test file, read without
\* trouble; or a sample file with trouble (a file that is missing, unreadable
\* or no YAML; a repository that does not exist) or with the verbose flag.
TestEnvs ==
    {[fileStatus |-> "ok", yaml |-> y, repoExists |-> TRUE, verboseFlag |-> FALSE] :
        y \in TestConfigs}
    \cup {[fileStatus |-> fs, yaml |-> SampleConfig(1), repoExists |-> re, verboseFlag |-> v] :
            fs \in {"ok", "missing", "unreadable", "bad yaml"}, re \in BOOLEAN,
            v \in BOOLEAN}

\* The unit tests: loadConfig on a fresh configurationFile, then one runner
\* called with or without the test prefix.  The tool prints nothing.
InitTest ==
    /\ env \in TestEnvs
    /\ configFile = EmptyConfig
    /\ testArgs \in {<<>>, <<<<"t", "e", "s", "t", "b", "a", "c", "k", "u", "p">>, <<"x">>>>}
    /\ debugFlag \in BOOLEAN
    /\ (debugFlag => env.yaml = SampleConfig(1))
    /\ cmdBackup = FALSE /\ cmdCopy = FALSE /\ cmdPrune = FALSE /\ cmdCheck = FALSE
    /\ caller = "test"
    /\ pc = "loadConfig"
    /\ i = 0
    /\ cmdArgs = <<>>
    /\ backupEntry = ZeroBackupRevision
    /\ copyEntry = ZeroCopyRevision
    /\ backupTable = <<>>
    /\ copyTable = <<>>
    /\ log = <<>>
    /\ calls = <<>>
    /\ events = <<>>
    /\ runnerRet = NoReturns
    /\ ret = None
    /\ loadErr = None

NextTest ==
    \/ loadConfig
    \/ \E kind \in {"backup", "copy", "prune", "check"} : callRunner(kind)
    \/ performDuplicacyBackup
    \/ \E r \in {Nil} \cup Errors : backupExecutor(r)
    \/ performDuplicacyCopy
    \/ \E r \in {Nil} \cup Errors : copyExecutor(r)
    \/ performDuplicacyPrune
    \/ \E r \in {Nil} \cup Errors : pruneExecutor(r)
    \/ performDuplicacyCheck
    \/ \E r \in {Nil} \cup Errors : checkExecutor(r)

SpecTest == InitTest /\ [][NextTest]_vars

\* ------------------------------------------------- the line sinks on their own
\* Rows of whitespace-free tokens the tool may print in its summary lines:
\* plain numbers with unit suffixes, and tokens with punctuation.
TokenRows ==
    {<<<<"1">>, <<"2", "K">>, <<"3">>, <<"4", "M">>, <<"5", "G">>>>, <<<<"9", ":">>, <<"8", ",", "5">>, <<"7", ";">>, <<"6">>, <<"0">>>>}

\* Files: <a> total, <b> bytes; <c> new, <d> bytes
FilesOf(r) ==
    <<"F", "i", "l", "e", "s", ":", " ">> \o r[1] \o <<" ", "t", "o", "t", "a", "l", ",", " ">> \o r[2] \o <<" ", "b", "y", "t", "e", "s", ";", " ">> \o r[3] \o <<" ", "n", "e", "w", ",", " ">>
    \o r[4] \o <<" ", "b", "y", "t", "e", "s">>

\* All chunks: <a> total, <b> bytes; <c> new, <d> bytes, <e> bytes uploaded
ChunksOf(r) ==
    <<"A", "l", "l", " ", "c", "h", "u", "n", "k", "s", ":", " ">> \o r[1] \o <<" ", "t", "o", "t", "a", "l", ",", " ">> \o r[2] \o <<" ", "b", "y", "t", "e", "s", ";", " ">> \o r[3] \o <<" ", "n", "e", "w", ",", " ">>
    \o r[4] \o <<" ", "b", "y", "t", "e", "s", ",", " ">> \o r[5] \o <<" ", "b", "y", "t", "e", "s", " ", "u", "p", "l", "o", "a", "d", "e", "d">>

\* Copy complete, <a> total chunks, <b> chunks copied, <c> skipped
CopyOf(r) ==
    <<"C", "o", "p", "y", " ", "c", "o", "m", "p", "l", "e", "t", "e", ",", " ">> \o r[1] \o <<" ", "t", "o", "t", "a", "l", " ", "c", "h", "u", "n", "k", "s", ",", " ">> \o r[2] \o <<" ", "c", "h", "u", "n", "k", "s", " ", "c", "o", "p", "i", "e", "d", ",", " ">>
    \o r[3] \o <<" ", "s", "k", "i", "p", "p", "e", "d">>

\* The lines the tool may print while a backup or copy runner is called on its
\* own: the lines of a run and the summary lines of every token row.
ObservedLines(kind) ==
    OutputLines(kind)
    \cup (IF kind = "backup"
          THEN {FilesOf(r) : r \in TokenRows} \cup {ChunksOf(r) : r \in TokenRows}
          ELSE {CopyOf(r) : r \in TokenRows} \cup {AuthLine, PlainLine})

\* The backup or the copy runner called on the loaded one-target sample file,
\* the tool printing up to MaxObserved lines.
InitObserve ==
    /\ env = [fileStatus |-> "ok", yaml |-> SampleConfig(1), repoExists |-> TRUE,
              verboseFlag |-> FALSE]
    /\ configFile = EmptyConfig
    /\ testArgs = <<>>
    /\ debugFlag = FALSE
    /\ cmdBackup = FALSE /\ cmdCopy = FALSE /\ cmdPrune = FALSE /\ cmdCheck = FALSE
    /\ caller = "test"
    /\ pc = "loadConfig"
    /\ i = 0
    /\ cmdArgs = <<>>
    /\ backupEntry = ZeroBackupRevision
    /\ copyEntry = ZeroCopyRevision
    /\ backupTable = <<>>
    /\ copyTable = <<>>
    /\ log = <<>>
    /\ calls = <<>>
    /\ events = <<>>
    /\ runnerRet = NoReturns
    /\ ret = None
    /\ loadErr = None

NextObserve ==
    \/ loadConfig
    \/ \E kind \in {"backup", "copy"} : callRunner(kind)
    \/ performDuplicacyBackup
    \/ \E line \in ObservedLines("backup") : backupLogger(line)
    \/ \E r \in {Nil} \cup Errors : backupExecutor(r)
    \/ performDuplicacyCopy
    \/ \E line \in ObservedLines("copy") : copyLogger(line)
    \/ \E r \in {Nil} \cup Errors : copyExecutor(r)

SpecObserve == InitObserve /\ [][NextObserve]_vars

\* =================================================================== claims
\* The executor invocations of one kind, in order.
CallsOf(kind) == SelectSeq(calls, LAMBDA c : c.kind = kind)

\* The configured targets of one kind.
TargetsOf(kind) ==
    CASE kind = "backup" -> configFile.BackupInfo
      [] kind = "copy" -> configFile.CopyInfo
      [] kind = "prune" -> configFile.PruneInfo
      [] kind = "check" -> configFile.CheckInfo

\* Whether invocation c returned an error.
Failed(c) == c.done /\ c.err # Nil

\* Entry j of the kind's Result Table is the entry of configured target j.
EntryOfTarget(kind, j) ==
    IF kind = "backup"
    THEN backupTable[j].storage = configFile.BackupInfo[j].Name
    ELSE /\ copyTable[j].storageFrom = configFile.CopyInfo[j].From
         /\ copyTable[j].storageTo = configFile.CopyInfo[j].To

TableOf(kind) == IF kind = "backup" THEN backupTable ELSE copyTable

\* C1: when the executor fails for target K of a backup or copy run that
\* started with an empty Result Table (targets 1..K-1 having succeeded), the
\* table holds exactly the K-1 entries of targets 1..K-1 in order, the runner
\* has returned that failure, and no target after K was ever invoked.
C1_FailureKeepsPrefix ==
    \A kind \in {"backup", "copy"} :
        LET cs == CallsOf(kind)
            K == Len(cs)
        IN (K > 0 /\ Failed(cs[K])) =>
              /\ K <= Len(TargetsOf(kind))
              /\ \A j \in 1..K : cs[j].n = j
              /\ \A j \in 1..(K - 1) : cs[j].done /\ cs[j].err = Nil
              /\ Len(TableOf(kind)) = K - 1
              /\ \A j \in 1..(K - 1) : EntryOfTarget(kind, j)
              /\ runnerRet[kind] = cs[K].err
              /\ runnerRet[kind] \in Errors

\* C1 witness: of two backup targets the first succeeded and the second
\* failed; the run, which had also requested copy, is over with one entry in
\* the backup table.
C1_Witness ==
    /\ pc = "done"
    /\ Len(CallsOf("backup")) = 2
    /\ Failed(CallsOf("backup")[2])
    /\ Len(backupTable) = 1
    /\ cmdCopy

\* C2: when no invocation fails, after the backup (copy) runner returns the
\* table holds exactly N entries and entry i carries the name (the from/to
\* identifiers) of the i-th configured target.
C2_OneEntryPerTarget ==
    \A kind \in {"backup", "copy"} :
        runnerRet[kind] = Nil =>
            /\ Len(TableOf(kind)) = Len(TargetsOf(kind))
            /\ \A j \in 1..Len(TargetsOf(kind)) : EntryOfTarget(kind, j)

\* C2 witness: both runners returned nil over two targets each.
C2_Witness ==
    /\ runnerRet["backup"] = Nil /\ Len(configFile.BackupInfo) = 2
    /\ runnerRet["copy"] = Nil /\ Len(configFile.CopyInfo) = 2
    /\ backupTable[1].storage # backupTable[2].storage

\* C3: in performBackup a failed executor invocation is the last invocation
\* of the run, the success notification is never sent, and performBackup has
\* returned the very error the executor returned.
C3_FailureAbortsRun ==
    \A j \in 1..Len(calls) :
        Failed(calls[j]) =>
            /\ j = Len(calls)
            /\ \A e \in 1..Len(events) : events[e] # "notifyOfSuccess"
            /\ pc = "done"
            /\ ret = calls[j].err

\* C3 witness: the first of two backup targets failed while copy, prune and
\* check were requested too.
C3_Witness ==
    /\ Len(calls) = 1 /\ Failed(calls[1]) /\ calls[1].kind = "backup"
    /\ Len(configFile.BackupInfo) = 2
    /\ cmdCopy /\ cmdPrune /\ cmdCheck

\* The place of a collaborator call in performBackup's fixed order.
Rank(e) ==
    CASE e = "rotateLogFiles" -> 1
      [] e = "osCreate" -> 2
      [] e = "notifyOfStart" -> 3
      [] e = "backup" -> 4
      [] e = "copy" -> 5
      [] e = "prune" -> 6
      [] e = "check" -> 7
      [] e = "notifyOfSuccess" -> 8

\* The mode flag of an operation kind.
Requested(kind) ==
    CASE kind = "backup" -> cmdBackup
      [] kind = "copy" -> cmdCopy
      [] kind = "prune" -> cmdPrune
      [] kind = "check" -> cmdCheck

\* C4: the events of a run of performBackup follow the fixed order
\* RotateLogs, NotifyStart, backup, copy, prune, check invocations,
\* NotifySuccess, no step being revisited; the targets of a kind are invoked
\* in configuration order; a kind whose mode flag is not set is never invoked.
C4_FixedOrder ==
    /\ \A a, b \in 1..Len(events) :
          a < b => /\ Rank(events[a]) <= Rank(events[b])
                   /\ (Rank(events[a]) = Rank(events[b])
                          => events[a] \in {"backup", "copy", "prune", "check"})
    /\ events # <<>> => events[1] = "rotateLogFiles"
    /\ \A e \in 1..Len(events) :
          Rank(events[e]) > 3 => \E s \in 1..(e - 1) : events[s] = "notifyOfStart"
    /\ \A kind \in {"backup", "copy", "prune", "check"} :
          /\ \A j \in 1..Len(CallsOf(kind)) : CallsOf(kind)[j].n = j
          /\ ~Requested(kind) => CallsOf(kind) = <<>>
    /\ Len(events) = Len(calls) + Cardinality({e \in 1..Len(events) : Rank(events[e]) \notin 4..7})

\* C4 witness: a finished run with all four kinds requested, two targets each.
C4_Witness ==
    /\ pc = "done"
    /\ events[Len(events)] = "notifyOfSuccess"
    /\ \A kind \in {"backup", "copy", "prune", "check"} : Len(CallsOf(kind)) = 2

\* Whether some line delivered during invocation c sets the Files fields
\* (the chunk fields, the copy fields).
SawFiles(c) ==
    \E k \in 1..Len(c.lines) :
        BackupCase(c.lines[k]) = "files" /\ FilesRe(c.lines[k]) # <<>>

SawChunks(c) ==
    \E k \in 1..Len(c.lines) :
        BackupCase(c.lines[k]) = "chunks" /\ ChunksRe(c.lines[k]) # <<>>

SawCopy(c) ==
    \E k \in 1..Len(c.lines) :
        HasPrefix(c.lines[k], <<"C", "o", "p", "y", " ", "c", "o", "m", "p", "l", "e", "t", "e", ",", " ">>) /\ CopyRe(c.lines[k]) # <<>>

FilesFields == {"filesTotalCount", "filesTotalSize", "filesNewCount", "filesNewSize"}

ChunkFields ==
    {"chunkTotalCount", "chunkTotalSize", "chunkNewCount", "chunkNewSize",
     "chunkNewUploaded"}

CopyFields == {"chunkTotalCount", "chunkCopyCount", "chunkSkipCount"}

\* C5: every metric field of every entry of the backup and copy Result
\* Tables is unset unless a matching output line was observed during that
\* entry's own invocation (the record of a target starts empty).
C5_FieldsFromOwnInvocation ==
    /\ \A j \in 1..Len(backupTable) :
          /\ (\E f \in FilesFields : backupTable[j][f] # <<>>) => SawFiles(CallsOf("backup")[j])
          /\ (\E f \in ChunkFields : backupTable[j][f] # <<>>) => SawChunks(CallsOf("backup")[j])
    /\ \A j \in 1..Len(copyTable) :
          (\E f \in CopyFields : copyTable[j][f] # <<>>) => SawCopy(CallsOf("copy")[j])

\* C6: the Result Tables are append-only.  A step changes backupTable
\* (copyTable) only by appending one entry, and only when a backup (copy)
\* invocation returns without error; a line delivered to any sink, and every
\* step of the prune and check runners, leaves both tables unchanged.
C6_AppendOnly ==
    [][/\ \/ backupTable' = backupTable
          \/ /\ pc = "backupExec" /\ pc' = "backupLoop"
             /\ calls'[Len(calls')].done /\ calls'[Len(calls')].err = Nil
             /\ Len(backupTable') = Len(backupTable) + 1
             /\ SubSeq(backupTable', 1, Len(backupTable)) = backupTable
       /\ \/ copyTable' = copyTable
          \/ /\ pc = "copyExec" /\ pc' = "copyLoop"
             /\ calls'[Len(calls')].done /\ calls'[Len(calls')].err = Nil
             /\ Len(copyTable') = Len(copyTable) + 1
             /\ SubSeq(copyTable', 1, Len(copyTable)) = copyTable
       /\ (pc \in {"pruneLoop", "pruneExec", "checkLoop", "checkExec"} \/ LinesIn(calls') # LinesIn(calls))
             => backupTable' = backupTable /\ copyTable' = copyTable]_vars

\* C6 witness: both tables hold two entries, the first backup entry without
\* file counts although a line that sets them was observed for the second
\* backup target, and a prune invocation is running.
C6_Witness ==
    /\ Len(backupTable) = 2 /\ Len(copyTable) = 2
    /\ SawFiles(CallsOf("backup")[2])
    /\ backupTable[1].filesTotalCount = <<>>
    /\ pc = "pruneExec"

\* Whether a line is a credential prompt or an authorization failure.
IsCredentialLine(line) ==
    HasPrefix(line, <<"E", "n", "t", "e", "r", " ", "s", "t", "o", "r", "a", "g", "e", " ", "p", "a", "s", "s", "w", "o", "r", "d", ":">>) \/ HasSuffix(line, <<"A", "u", "t", "h", "o", "r", "i", "z", "a", "t", "i", "o", "n", " ", "f", "a", "i", "l", "u", "r", "e">>)

\* Number of credential lines delivered so far to the backup and copy sinks.
RECURSIVE CredentialLines(_)
CredentialLines(cs) ==
    IF cs = <<>> THEN 0
    ELSE (IF cs[1].kind \in {"backup", "copy"}
          THEN Cardinality({k \in 1..Len(cs[1].lines) : IsCredentialLine(cs[1].lines[k])})
          ELSE 0) + CredentialLines(Tail(cs))

\* C7: every output line of a backup or copy invocation that starts with
\* `Enter storage password:` or ends with `Authorization failure` makes the
\* line sink write the password warning to the log: there are as many
\* warnings in the log as such lines were delivered.
C7_CredentialLinesWarned ==
    Cardinality({k \in 1..Len(log) : log[k] = PasswordWarning}) = CredentialLines(calls)

\* The configured target invocation c was made for.
TargetOf(c) == TargetsOf(c.kind)[c.n]

\* The passthrough (quote) string of the target of invocation c.
QuoteOf(c) == TargetOf(c).Quote

\* The operation verb and the mandatory identifiers of an invocation (for
\* backup, together with the `-stats` that always follows them).
VerbAndIdentifiers(c) ==
    CASE c.kind = "backup" -> <<<<"b", "a", "c", "k", "u", "p">>, <<"-", "s", "t", "o", "r", "a", "g", "e">>, TargetOf(c).Name, <<"-", "s", "t", "a", "t", "s">>>>
      [] c.kind = "copy" -> <<<<"c", "o", "p", "y">>, <<"-", "f", "r", "o", "m">>, TargetOf(c).From, <<"-", "t", "o">>, TargetOf(c).To>>
      [] c.kind = "prune" -> <<<<"p", "r", "u", "n", "e">>, <<"-", "s", "t", "o", "r", "a", "g", "e">>, TargetOf(c).Storage>>
      [] c.kind = "check" -> <<<<"c", "h", "e", "c", "k">>, <<"-", "s", "t", "o", "r", "a", "g", "e">>, TargetOf(c).Storage>>

\* The thread count of an invocation (check targets have none).
ThreadCount(c) ==
    IF c.kind = "check" THEN <<>> ELSE <<<<"-", "t", "h", "r", "e", "a", "d", "s">>, TargetOf(c).Threads>>

\* The retention tokens of a prune invocation: the space-separated pieces of
\* the stored keep-spec.
RetentionTokens(c) == IF c.kind = "prune" THEN Split(TargetOf(c).Keep) ELSE <<>>

\* The snapshot flag with its timeout (backup) and the apply-to-all flag
\* (prune, check).
SwitchFlags(c) ==
    CASE c.kind = "backup" ->
           IF ~TargetOf(c).Vss THEN <<>>
           ELSE IF TargetOf(c).VssTimeout = <<>> THEN <<<<"-", "v", "s", "s">>>>
           ELSE <<<<"-", "v", "s", "s">>, <<"-", "v", "s", "s", "-", "t", "i", "m", "e", "o", "u", "t">>, TargetOf(c).VssTimeout>>
      [] c.kind \in {"prune", "check"} ->
           IF TargetOf(c).All THEN <<<<"-", "a", "l", "l">>>> ELSE <<>>
      [] OTHER -> <<>>

\* The arguments of invocation c after the caller's prefix arguments.
OwnArgs(c) == SubSeq(c.args, Len(testArgs) + 1, Len(c.args))

\* OwnArgs(c) is the list `fixed`, followed by exactly one more argument
\* when the target has a passthrough string and by nothing otherwise.
FixedThenPassthrough(c, fixed) ==
    /\ Len(c.args) >= Len(testArgs)
    /\ Len(OwnArgs(c)) = Len(fixed) + (IF QuoteOf(c) # <<>> THEN 1 ELSE 0)
    /\ SubSeq(OwnArgs(c), 1, Len(fixed)) = fixed

\* C8 as stated: after the prefix arguments every argument list is the verb
\* and the identifiers, then the thread count, then the operation-specific
\* flags (retention tokens and apply-to-all for prune), then the passthrough
\* argument; for prune `-threads <n>` precedes every `-keep` and `-all`.
C8_ThreadsBeforeFlags ==
    \A k \in 1..Len(calls) :
        LET c == calls[k]
        IN FixedThenPassthrough(c, VerbAndIdentifiers(c) \o ThreadCount(c)
                                     \o RetentionTokens(c) \o SwitchFlags(c))

\* C8 amended: after the prefix arguments every argument list is the verb
\* and the identifiers, then - for prune - the retention tokens, then the
\* thread count (none for check), then the snapshot flag with its timeout
\* (backup) or the apply-to-all flag (prune, check), then the passthrough
\* argument last; for prune every `-keep` token precedes `-threads <n>`,
\* which precedes `-all`.
C8_ArgumentOrder ==
    \A k \in 1..Len(calls) :
        LET c == calls[k]
        IN FixedThenPassthrough(c, VerbAndIdentifiers(c) \o RetentionTokens(c)
                                     \o ThreadCount(c) \o SwitchFlags(c))

\* C8 witness: a prune invocation made with prefix arguments for a target
\* with two retention rules, the apply-to-all flag and a passthrough string.
C8_Witness ==
    /\ calls # <<>> /\ testArgs # <<>>
    /\ LET c == calls[Len(calls)]
       IN /\ c.kind = "prune" /\ c.done
          /\ Len(RetentionTokens(c)) = 4
          /\ TargetOf(c).All
          /\ QuoteOf(c) # <<>>

\* C9: for a target with a non-empty passthrough string the last argument
\* handed to the executor is exactly that string; for a target without one
\* no argument is appended.
C9_QuoteVerbatim ==
    \A k \in 1..Len(calls) :
        LET c == calls[k]
            fixed == VerbAndIdentifiers(c) \o RetentionTokens(c) \o ThreadCount(c)
                     \o SwitchFlags(c)
        IN IF QuoteOf(c) # <<>>
           THEN c.args # <<>> /\ c.args[Len(c.args)] = QuoteOf(c)
           ELSE Len(c.args) = Len(testArgs) + Len(fixed)

\* The keep-spec of the target of prune invocation c as the file gives it.
FileKeep(c) == env.yaml.PruneInfo[c.n].Keep

\* A keep-spec that is a list of one or more non-empty rules separated by
\* single spaces.
RuleList(keep) ==
    keep # <<>> /\ \A k \in 1..Len(Split(keep)) : Split(keep)[k] # <<>>

\* C10: for a prune target whose keep-spec in the file is a list of n >= 1
\* non-empty rules r1..rn separated by single spaces, the arguments handed to
\* the executor after loadConfig hold `-keep r1 ... -keep rn` contiguously,
\* in rule order, as 2n discrete arguments, and no other `-keep`.
C10_KeepExpansion ==
    \A k \in 1..Len(calls) :
        LET c == calls[k]
        IN (c.kind = "prune" /\ RuleList(FileKeep(c))) =>
              LET rules == Split(FileKeep(c))
                  n == Len(rules)
              IN /\ \E o \in 0..(Len(c.args) - 2 * n) :
                        \A j \in 1..n : /\ c.args[o + 2 * j - 1] = <<"-", "k", "e", "e", "p">>
                                        /\ c.args[o + 2 * j] = rules[j]
                 /\ Cardinality({j \in 1..Len(c.args) : c.args[j] = <<"-", "k", "e", "e", "p">>}) = n

\* C10 witness: a prune invocation for a target whose keep-spec in the file
\* has two different rules.
C10_Witness ==
    /\ loadErr = Nil
    /\ \E k \in 1..Len(calls) :
          LET c == calls[k]
          IN /\ c.kind = "prune" /\ c.done
             /\ RuleList(FileKeep(c))
             /\ Len(Split(FileKeep(c))) = 2
             /\ Split(FileKeep(c))[1] # Split(FileKeep(c))[2]

\* The line delivered last to the sink of the running invocation.
LastLine(cs) == cs[Len(cs)].lines[Len(cs[Len(cs)].lines)]

\* This step hands one more line to a line sink.
LineStep == LinesIn(calls') = LinesIn(calls) + 1

\* The token rows of the summary lines that are observed: the rows of the
\* generated lines and the rows of the sample lines.
FormRows ==
    TokenRows \cup {<<<<"1", "0", "0">>, <<"1", "0", "G">>, <<"5">>, <<"2", "0", "0", "M">>, <<"0">>>>,
                    <<<<"4", "0", "0">>, <<"1", "2", "G">>, <<"2", "0">>, <<"3", "0", "0", "M">>, <<"2", "9", "0", "M">>>>}

\* C11: a line `Files: <a> total, <b> bytes; <c> new, <d> bytes` observed by
\* the backup sink sets exactly the four file fields of the record to a, b,
\* c, d verbatim, and a line `All chunks: <a> total, <b> bytes; <c> new,
\* <d> bytes, <e> bytes uploaded` exactly the five chunk fields to a..e; no
\* other field changes.  For the one backup target `primary` whose output is
\* the two sample lines, the entry appended holds 100, 10G, 5, 200M, the
\* chunk total 400, 290M uploaded, storage primary and a non-empty duration.
C11_FieldsVerbatim ==
    /\ [][(LineStep /\ pc = "backupExec") =>
            \A r \in FormRows :
               /\ LastLine(calls') = FilesOf(r) =>
                     backupEntry' = [backupEntry EXCEPT
                                        !.filesTotalCount = r[1], !.filesTotalSize = r[2],
                                        !.filesNewCount = r[3], !.filesNewSize = r[4]]
               /\ LastLine(calls') = ChunksOf(r) =>
                     backupEntry' = [backupEntry EXCEPT
                                        !.chunkTotalCount = r[1], !.chunkTotalSize = r[2],
                                        !.chunkNewCount = r[3], !.chunkNewSize = r[4],
                                        !.chunkNewUploaded = r[5]]]_vars
    /\ [](\A k \in 1..Len(calls) :
            (/\ calls[k].kind = "backup" /\ calls[k].done /\ calls[k].err = Nil
             /\ calls[k].lines = <<FilesLine, ChunksLine>>
             /\ configFile.BackupInfo[calls[k].n].Name = <<"p", "r", "i", "m", "a", "r", "y">>)
            => LET e == backupTable[calls[k].n]
               IN /\ e.filesTotalCount = <<"1", "0", "0">> /\ e.filesTotalSize = <<"1", "0", "G">>
                  /\ e.filesNewCount = <<"5">> /\ e.filesNewSize = <<"2", "0", "0", "M">>
                  /\ e.chunkTotalCount = <<"4", "0", "0">> /\ e.chunkNewUploaded = <<"2", "9", "0", "M">>
                  /\ e.storage = <<"p", "r", "i", "m", "a", "r", "y">> /\ e.duration # <<>>)

\* C11 witness: the backup of `primary` printed the two sample lines, which
\* are lines of the two forms, then a generated Files line, and its entry is
\* in the table.
C11_Witness ==
    /\ Len(backupTable) = 1 /\ Len(calls) = 1
    /\ calls[1].lines = <<FilesLine, ChunksLine, FilesOf(<<<<"9", ":">>, <<"8", ",", "5">>, <<"7", ";">>, <<"6">>, <<"0">>>>)>>
    /\ \E r \in FormRows : FilesLine = FilesOf(r)
    /\ \E r \in FormRows : ChunksLine = ChunksOf(r)
    /\ backupTable[1].filesTotalCount = <<"9", ":">>
    /\ backupTable[1].chunkNewUploaded = <<"2", "9", "0", "M">>

\* C12: a line that starts with none of the recognized prefixes (`Files:`,
\* `All chunks:` for backup; `Copy complete, ` for copy) leaves every field
\* of the record in progress unchanged, credential prompts and authorization
\* failures included.
C12_UnrecognizedLeavesRecord ==
    [][LineStep =>
         /\ (/\ pc = "backupExec"
             /\ ~HasPrefix(LastLine(calls'), <<"F", "i", "l", "e", "s", ":">>)
             /\ ~HasPrefix(LastLine(calls'), <<"A", "l", "l", " ", "c", "h", "u", "n", "k", "s", ":">>)) => backupEntry' = backupEntry
         /\ (/\ pc = "copyExec"
             /\ ~HasPrefix(LastLine(calls'), <<"C", "o", "p", "y", " ", "c", "o", "m", "p", "l", "e", "t", "e", ",", " ">>)) => copyEntry' = copyEntry]_vars

\* C12 witness: a copy record with its counts set has seen a credential
\* prompt and then a plain line.
C12_Witness ==
    /\ pc = "copyExec"
    /\ calls[Len(calls)].lines = <<CopyLine, PasswordLine, PlainLine>>
    /\ copyEntry.chunkTotalCount = <<"1", "0", "7">>

\* C15: observing the same line twice in a row leaves the record with the
\* field values it had after observing it once, whatever the record held
\* before.
C15_ObserveIdempotent ==
    [][(/\ LineStep
        /\ calls # <<>> /\ calls[Len(calls)].lines # <<>>
        /\ Len(calls') = Len(calls)
        /\ LastLine(calls') = LastLine(calls))
       => backupEntry' = backupEntry /\ copyEntry' = copyEntry]_vars

\* C15 witness: a backup record that held the counts of an earlier line has
\* seen the same Files line twice.
C15_Witness ==
    /\ pc = "backupExec"
    /\ calls[Len(calls)].lines = <<FilesOf(<<<<"1">>, <<"2", "K">>, <<"3">>, <<"4", "M">>, <<"5", "G">>>>), FilesLine, FilesLine>>
    /\ backupEntry.filesTotalCount = <<"1", "0", "0">>

\* C13: the content of the output lines never decides the outcome of a
\* runner.  Whatever was printed, a backup or copy target whose invocation
\* returned no error has its entry in the table; a runner returns an error
\* only when its last invocation did, and that very error; and a runner that
\* returned no error has invoked every target, each returning no error.
C13_OutcomeFromExecutorOnly ==
    /\ \A kind \in {"backup", "copy"} :
          \A j \in 1..Len(CallsOf(kind)) :
              (CallsOf(kind)[j].done /\ CallsOf(kind)[j].err = Nil) =>
                  Len(TableOf(kind)) >= j /\ EntryOfTarget(kind, j)
    /\ \A kind \in {"backup", "copy", "prune", "check"} :
          LET cs == CallsOf(kind)
          IN /\ runnerRet[kind] \notin {None, Nil} =>
                   cs # <<>> /\ Failed(cs[Len(cs)]) /\ runnerRet[kind] = cs[Len(cs)].err
             /\ runnerRet[kind] = Nil =>
                   /\ Len(cs) = Len(TargetsOf(kind))
                   /\ \A j \in 1..Len(cs) : cs[j].done /\ cs[j].err = Nil
             /\ \A j \in 1..Len(cs) : Failed(cs[j]) => runnerRet[kind] = cs[j].err

\* C13 witness: a backup whose output was a Files line that does not match
\* and a credential prompt returned no error; its entry, without file
\* counts, is in the table, and the copy that followed printed nothing and is
\* in the table too.
C13_Witness ==
    /\ calls # <<>>
    /\ calls[1].kind = "backup" /\ calls[1].lines = <<FilesMismatch, PasswordLine>>
    /\ runnerRet["backup"] = Nil /\ runnerRet["copy"] = Nil
    /\ backupTable[1].filesTotalCount = <<>>
    /\ copyTable # <<>> /\ copyTable[1].chunkTotalCount = <<>>

\* The lines handed to the line sinks in this run, in order.
RECURSIVE AllLines(_)
AllLines(cs) == IF cs = <<>> THEN <<>> ELSE cs[1].lines \o AllLines(Tail(cs))

\* The texts written to the run's log file by logger.Println(line), in order.
VerbatimLog ==
    LET v == SelectSeq(log, LAMBDA e : e.via = "Println" /\ e.logger /\ e.msg = "")
    IN [k \in 1..Len(v) |-> v[k].text]

\* C14: every line delivered to the line sink of a backup, copy, prune or
\* check invocation is written verbatim to the run's log, whatever its
\* classification, and the verbatim lines are in the log in the order of
\* delivery.
C14_EveryLineVerbatim == VerbatimLog = AllLines(calls)

\* C14 witness: the run is over; an authorization failure was printed during
\* a backup and a plain line during a check.
C14_Witness ==
    /\ pc = "done"
    /\ \E k \in 1..Len(calls) : calls[k].kind = "backup" /\ calls[k].lines = <<AuthLine>>
    /\ \E k \in 1..Len(calls) : calls[k].kind = "check" /\ calls[k].lines = <<PlainLine>>
    /\ Len(VerbatimLog) = 2

\* How often a collaborator was called in this run.
Count(e) == Cardinality({k \in 1..Len(events) : events[k] = e})

\* Whether something was written to the run's log file.
LogFileWritten(l) == \E k \in 1..Len(l) : l[k].logger

\* C16: log rotation is the first action of every run of performBackup and
\* is performed unconditionally.  Nothing is written to the run's log file
\* before rotateLogFiles has been called, and the log file is created only
\* after the rotation has returned without error (a failed rotation ends the
\* run).
C16_RotationFirst ==
    /\ [](pc # "rotateLogFiles" => events # <<>> /\ events[1] = "rotateLogFiles")
    /\ [][/\ (~LogFileWritten(log) /\ LogFileWritten(log')) =>
                events # <<>> /\ events[1] = "rotateLogFiles"
          /\ (pc = "rotateLogFiles" /\ ret' # None) =>
                pc' = "done" /\ events' = <<"rotateLogFiles">>
          /\ (Count("osCreate")' > Count("osCreate")) =>
                events = <<"rotateLogFiles">> /\ ret = None]_vars

\* C16 witness: the rotation succeeded, the log file was created and holds
\* its first line; the message about the rotation went to the console only.
C16_Witness ==
    /\ events = <<"rotateLogFiles", "osCreate">>
    /\ pc = "notifyOfStart"
    /\ Len(log) = 2 /\ ~log[1].logger /\ log[2].logger

\* Whether the log rotation and the creation of the log file both succeeded:
\* the first line of the new log file is written right after them.
SetUp == \E k \in 1..Len(log) : log[k].msg = "Beginning backup on "

\* Whether every executor invocation made so far returned without error.
AllSucceeded == \A k \in 1..Len(calls) : calls[k].done /\ calls[k].err = Nil

\* Whether every requested kind has returned without error.
AllRequestedDone ==
    \A kind \in {"backup", "copy", "prune", "check"} :
        IF Requested(kind) THEN runnerRet[kind] = Nil ELSE runnerRet[kind] = None

\* C17 as stated: in every run the start notification is invoked exactly
\* once, before any executor invocation, and the success notification at
\* most once, only after the last requested invocation has succeeded.
C17_StartInEveryRun ==
    /\ pc = "done" => Count("notifyOfStart") = 1
    /\ calls # <<>> => Count("notifyOfStart") = 1
    /\ Count("notifyOfSuccess") <= 1
    /\ Count("notifyOfSuccess") = 1 => AllSucceeded /\ AllRequestedDone

\* C17 amended: the start notification is invoked at most once, and exactly
\* once in every run whose log rotation and log-file creation succeeded,
\* before any executor invocation; a run that fails at the rotation or at
\* the creation of the log file sends none.  The success notification is
\* invoked at most once, as the last call of the run, only after every
\* requested invocation has succeeded.
C17_Notifications ==
    /\ Count("notifyOfStart") <= 1
    /\ pc = "done" => (Count("notifyOfStart") = 1 <=> SetUp)
    /\ \A k \in 1..Len(events) :
          events[k] \in {"backup", "copy", "prune", "check", "notifyOfSuccess"} =>
              \E j \in 1..(k - 1) : events[j] = "notifyOfStart"
    /\ Count("notifyOfSuccess") <= 1
    /\ Count("notifyOfSuccess") = 1 =>
          /\ events[Len(events)] = "notifyOfSuccess"
          /\ AllSucceeded /\ AllRequestedDone
          /\ \A kind \in {"backup", "copy", "prune", "check"} :
                Requested(kind) => Len(CallsOf(kind)) = Len(TargetsOf(kind))

\* C17 witness: a run of prune and check only, two targets each, is over
\* with both notifications sent.
C17_Witness ==
    /\ pc = "done"
    /\ ~cmdBackup /\ ~cmdCopy /\ cmdPrune /\ cmdCheck
    /\ Len(calls) = 4
    /\ Count("notifyOfStart") = 1 /\ Count("notifyOfSuccess") = 1

\* Whether the file as read breaks a precondition of the runners: no
\* repository, a kind without targets where one is mandatory, or a target
\* with an empty mandatory field.
FileViolation(y) ==
    \/ y.RepoDir = <<>>
    \/ y.BackupInfo = <<>> \/ y.PruneInfo = <<>> \/ y.CheckInfo = <<>>
    \/ \E k \in 1..Len(y.BackupInfo) : y.BackupInfo[k].Name = <<>>
    \/ \E k \in 1..Len(y.CopyInfo) : y.CopyInfo[k].From = <<>> \/ y.CopyInfo[k].To = <<>>
    \/ \E k \in 1..Len(y.PruneInfo) : y.PruneInfo[k].Storage = <<>> \/ y.PruneInfo[k].Keep = <<>>
    \/ \E k \in 1..Len(y.CheckInfo) : y.CheckInfo[k].Storage = <<>>

\* The thread count loadConfig leaves for a target configured with t.
DefaultedThreads(t) == IF t = <<>> THEN <<"1">> ELSE t

\* C18: whenever loadConfig returns no error, every backup target has a
\* non-empty name, every copy target non-empty from and to identifiers, every
\* prune and check target a non-empty storage identifier, every prune target
\* a non-empty keep-spec, and every backup, copy and prune target a non-empty
\* thread count, `1` when none was configured; a violation at any target,
\* whatever the targets after it, makes loadConfig return an error.
C18_LoadedConfigValid ==
    /\ loadErr = Nil =>
          /\ \A k \in 1..Len(configFile.BackupInfo) :
                /\ configFile.BackupInfo[k].Name # <<>>
                /\ configFile.BackupInfo[k].Threads # <<>>
                /\ configFile.BackupInfo[k].Threads = DefaultedThreads(env.yaml.BackupInfo[k].Threads)
          /\ \A k \in 1..Len(configFile.CopyInfo) :
                /\ configFile.CopyInfo[k].From # <<>> /\ configFile.CopyInfo[k].To # <<>>
                /\ configFile.CopyInfo[k].Threads # <<>>
                /\ configFile.CopyInfo[k].Threads = DefaultedThreads(env.yaml.CopyInfo[k].Threads)
          /\ \A k \in 1..Len(configFile.PruneInfo) :
                /\ configFile.PruneInfo[k].Storage # <<>> /\ configFile.PruneInfo[k].Keep # <<>>
                /\ configFile.PruneInfo[k].Threads # <<>>
                /\ configFile.PruneInfo[k].Threads = DefaultedThreads(env.yaml.PruneInfo[k].Threads)
          /\ \A k \in 1..Len(configFile.CheckInfo) : configFile.CheckInfo[k].Storage # <<>>
    /\ (loadErr # None /\ env.fileStatus = "ok" /\ FileViolation(env.yaml)) => loadErr # Nil

\* C18 witness: loadConfig returned no error for a file of two targets per
\* kind whose first prune target has no thread count, and left it `1`.
C18_Witness ==
    /\ loadErr = Nil
    /\ Len(configFile.PruneInfo) = 2
    /\ env.yaml.PruneInfo[1].Threads = <<>> /\ env.yaml.PruneInfo[1].Storage = <<"b">>
    /\ configFile.PruneInfo[1].Threads = <<"1">>
    /\ configFile.PruneInfo[2].Threads = <<"4">>

\* A run of loadConfig that found the first backup target without a name and
\* the second one, and everything after it, in order.
C18_MaskingCase ==
    /\ loadErr \notin {None, Nil}
    /\ Len(env.yaml.BackupInfo) = 2
    /\ env.yaml.BackupInfo[1].Name = <<>> /\ env.yaml.BackupInfo[2].Name # <<>>

\* Whether the run is over with the log set up and every requested kind
\* returned without error.
RunSucceeded == pc = "done" /\ SetUp /\ AllSucceeded /\ AllRequestedDone

\* C19 as stated: a run in which log rotation, log-file creation and every
\* requested executor invocation succeed ends Completed: performBackup
\* returns no error, after sending the success notification.
C19_SuccessReturnsNil ==
    RunSucceeded => Count("notifyOfSuccess") = 1 /\ ret = Nil

\* C19 amended: such a run writes the closing lines to the log, sends the
\* success notification as its last call and returns what the notification
\* returned, which is no error or the notification's own error; no error of
\* an executor is returned.
C19_SuccessNotifies ==
    RunSucceeded =>
        /\ Count("notifyOfSuccess") = 1
        /\ events[Len(events)] = "notifyOfSuccess"
        /\ log[Len(log)].msg = "Operations completed in "
        /\ log[Len(log) - 1] = Separator
        /\ ret # None
        /\ \A k \in 1..Len(calls) : calls[k].err = Nil

\* C19 witness: a run of all four kinds, two targets each, succeeded and
\* performBackup returned no error.
C19_Witness ==
    /\ RunSucceeded
    /\ Len(calls) = 8
    /\ ret = Nil

\* C19, the other outcome: such a run returned the notification's error.
C19_NotificationFailed ==
    /\ RunSucceeded
    /\ Len(calls) = 8
    /\ ret \in Errors

\* How many targets of the requested kinds are configured.
RequestedTargets ==
    (IF cmdBackup THEN Len(configFile.BackupInfo) ELSE 0)
    + (IF cmdCopy THEN Len(configFile.CopyInfo) ELSE 0)
    + (IF cmdPrune THEN Len(configFile.PruneInfo) ELSE 0)
    + (IF cmdCheck THEN Len(configFile.CheckInfo) ELSE 0)

\* C20: when every executor invocation eventually returns, every run of
\* performBackup eventually reaches a terminal state, where performBackup
\* has returned, and never leaves it; on the way no target of any kind is
\* invoked twice, so the number of executor invocations never exceeds the
\* number of configured targets of the requested kinds.
C20_Terminates ==
    /\ <>[](pc = "done" /\ ret # None)
    /\ [][pc = "done" => pc' = "done" /\ ret' = ret]_vars
    /\ [](\A j, k \in 1..Len(calls) :
             (calls[j].kind = calls[k].kind /\ calls[j].n = calls[k].n) => j = k)
    /\ [](Len(calls) <= RequestedTargets)

\* C20 witness: the run is over after one invocation for each of the two
\* targets of each of the four kinds.
C20_Witness ==
    /\ pc = "done" /\ ret # None
    /\ Len(calls) = 8 /\ RequestedTargets = 8
    /\ \A k \in 1..Len(calls) : calls[k].done

====
